---- MODULE Spec2Model ----
(***************************************************************************)
(* Model of the Renogy dashboard.  The proxy server (server.js, kept in    *)
(* src as unnamed/part_000): the response cache, the signed upstream       *)
(* client renogyRequest, the passthrough routes, GET /api/test and the     *)
(* GET /api/dashboard aggregation.  The vendor API is the environment:     *)
(* every upstream GET in flight is answered, at any later moment, by a     *)
(* payload or by an error.  The browser client (public/app.js): the fetch  *)
(* cycles, the refresh timer, the visibility handler and the display.  The *)
(* local server is the client's environment.                               *)
(***************************************************************************)
EXTENDS Integers, Sequences, FiniteSets, TLC

VARIABLES
  day,        \* the day the process started, in days since 1970-01-01
  now,        \* the clock, in milliseconds since 00:00 of that day:
              \* Date.now() is day * 86400000 + now
  ticks,      \* number of clock advances so far (bounded by MaxTicks)
  cache,      \* the Map `cache`: a set of [key, data, timestamp], one per key
  calls,      \* renogyRequest invocations of the running handlers, by call id
  dash,       \* the GET /api/dashboard handler: position, devices, response
  pt,         \* the passthrough handlers (GET /api/devices...), by slot: position, response
  requests,   \* number of HTTP requests accepted so far (bounded by MaxRequests)
  env,        \* process.env: RENOGY_ACCESS_KEY and RENOGY_SECRET_KEY
  test,       \* the GET /api/test handler: position, response
  rawData,          \* app.js line 6
  currentLocation,  \* app.js line 7
  refreshTimer,     \* app.js line 8
  elements,   \* the DOM nodes of `elements`: classes, inline styles, texts
  document,   \* document.hidden
  timers,     \* the interval timers of the page that are live, by id
  cycles,     \* the fetchDashboardData invocations, by number: position, or how it ended
  initCall    \* the invocation of init(): position, the cycle it awaits

serverVars == <<day, now, ticks, cache, calls, dash, pt, requests, env, test>>
clientVars ==
  <<rawData, currentLocation, refreshTimer, elements, document, timers, cycles,
    initCall>>
vars == <<serverVars, clientVars>>

-----------------------------------------------------------------------------
(* Bounds of the model *)
MaxTicks == 1
MaxRequests == 2
MaxFetches == 3

(* Program constants *)
CACHE_TTL == 60000
RENOGY_BASE_URL == "https://openapi.renogy.com"
REFRESH_INTERVAL == 60000

\* lines 15-16: the keys read from the environment when the process starts
ACCESS_KEY == env.ACCESS_KEY
SECRET_KEY == env.SECRET_KEY

-----------------------------------------------------------------------------
(* JavaScript values.  Every value is a record tagged by its type in `js`; *)
(* an object carries its own properties as further record fields.          *)
Undefined == [js |-> "undefined"]
Null == [js |-> "null"]
Str(s) == [js |-> "string", str |-> s]
Num(n) == [js |-> "number", num |-> n]
Bool(b) == [js |-> "boolean", bool |-> b]
Arr(s) == [js |-> "array", items |-> s]
EmptyObject == [js |-> "object"]

\* ToBoolean: the test of `if (v)`, `!v` and `a || b`
Truthy(v) ==
  CASE v.js \in {"undefined", "null"} -> FALSE
    [] v.js = "string" -> v.str # ""
    [] v.js = "number" -> v.num # 0
    [] v.js = "boolean" -> v.bool
    [] OTHER -> TRUE

\* a || b
OrElse(a, b) == IF Truthy(a) THEN a ELSE b

\* v.name throws a TypeError when v is null or undefined
PropThrows(v) == v.js \in {"undefined", "null"}

\* v.name when it does not throw: undefined for a missing property
Prop(v, name) == IF name \in DOMAIN v THEN v[name] ELSE Undefined

\* { ...a, ...b }: the properties of a, overridden and extended by those of b
Spread(a, b) ==
  [f \in (DOMAIN a) \cup (DOMAIN b) |-> IF f \in DOMAIN b THEN b[f] ELSE a[f]]

\* The error thrown by reading property `name` of null
TypeErrorOf(name) ==
  [js |-> "error",
   message |-> "Cannot read properties of null (reading '" \o name \o "')",
   response |-> Undefined]

-----------------------------------------------------------------------------
(* Cache: lines 18-43 *)

HasEntry(c, key) == \E e \in c : e.key = key
EntryOf(c, key) == CHOOSE e \in c : e.key = key

\* cache.get(key) of a stale entry: Date.now() - cached.timestamp > CACHE_TTL
Expired(e, t) == t - e.timestamp > CACHE_TTL

\* getFromCache with the age test written >= instead of >
getFromCache_inclusiveTTL(c, t, key) ==
  IF ~HasEntry(c, key) THEN Null
  ELSE IF t - EntryOf(c, key).timestamp >= CACHE_TTL THEN Null
  ELSE EntryOf(c, key).data

\* The value getFromCache(key) returns at time t
getFromCache(c, t, key) ==
  IF ~HasEntry(c, key) THEN Null
  ELSE IF Expired(EntryOf(c, key), t) THEN Null
  ELSE EntryOf(c, key).data

\* getFromCache without its cache.delete(key)
getFromCacheDelete_keepStale(c, t, key) == c

\* The cache after getFromCache(key) at time t: a stale entry is deleted
getFromCacheDelete(c, t, key) ==
  IF HasEntry(c, key) /\ Expired(EntryOf(c, key), t)
  THEN c \ {EntryOf(c, key)}
  ELSE c

\* setCache that stores nothing
setCache_noStore(c, t, key, data) == c

\* The cache after setCache(key, data) at time t
setCache(c, t, key, data) ==
  {e \in c : e.key # key} \cup {[key |-> key, data |-> data, timestamp |-> t]}

-----------------------------------------------------------------------------
(* Parameter mappings are sequences of [name, value] in insertion order;   *)
(* a value is a JavaScript string or number.                               *)

\* Strings are strings of printable ASCII characters other than the grave
\* accent, of tabs and of line breaks.

\* One character of a JSON string literal: the quote, the backslash and the
\* control characters are escaped
JSONchar(c) ==
  CASE c = "\"" -> "\\\""
    [] c = "\\" -> "\\\\"
    [] c = "\n" -> "\\n"
    [] c = "\t" -> "\\t"
    [] c = "\r" -> "\\r"
    [] c = "\f" -> "\\f"
    [] OTHER -> c

RECURSIVE JSONchars(_)
JSONchars(s) ==
  IF s = "" THEN ""
  ELSE JSONchar(SubSeq(s, 1, 1)) \o JSONchars(SubSeq(s, 2, Len(s)))

\* JSON.stringify of a string or number value
JSONvalue(v) ==
  IF v.js = "string" THEN "\"" \o JSONchars(v.str) \o "\"" ELSE ToString(v.num)

\* String(v), the conversion URLSearchParams applies to every value
StringOf(v) == IF v.js = "string" THEN v.str ELSE ToString(v.num)

\* One character in application/x-www-form-urlencoded: letters, digits and
\* * - . _ stand for themselves, the space is +, every other character is
\* percent-encoded
FormChar(c) ==
  CASE c = " " -> "+"
    [] c = "!" -> "%21" [] c = "\"" -> "%22" [] c = "#" -> "%23"
    [] c = "$" -> "%24" [] c = "%" -> "%25" [] c = "&" -> "%26"
    [] c = "'" -> "%27" [] c = "(" -> "%28" [] c = ")" -> "%29"
    [] c = "+" -> "%2B" [] c = "," -> "%2C" [] c = "/" -> "%2F"
    [] c = ":" -> "%3A" [] c = ";" -> "%3B" [] c = "<" -> "%3C"
    [] c = "=" -> "%3D" [] c = ">" -> "%3E" [] c = "?" -> "%3F"
    [] c = "@" -> "%40" [] c = "[" -> "%5B" [] c = "\\" -> "%5C"
    [] c = "]" -> "%5D" [] c = "^" -> "%5E"
    [] c = "{" -> "%7B" [] c = "|" -> "%7C" [] c = "}" -> "%7D"
    [] c = "~" -> "%7E"
    [] c = "\t" -> "%09" [] c = "\n" -> "%0A" [] c = "\f" -> "%0C"
    [] c = "\r" -> "%0D"
    [] OTHER -> c

RECURSIVE FormEncode(_)
FormEncode(s) ==
  IF s = "" THEN ""
  ELSE FormChar(SubSeq(s, 1, 1)) \o FormEncode(SubSeq(s, 2, Len(s)))

RECURSIVE JSONmembers(_)
JSONmembers(params) ==
  IF params = << >> THEN ""
  ELSE "\"" \o JSONchars(Head(params).name) \o "\":" \o JSONvalue(Head(params).value)
       \o (IF Len(params) > 1 THEN "," ELSE "") \o JSONmembers(Tail(params))

\* JSON.stringify(params)
JSONstringify(params) == "{" \o JSONmembers(params) \o "}"

RECURSIVE URLSearchParams(_)
\* new URLSearchParams(params).toString()
URLSearchParams(params) ==
  IF params = << >> THEN ""
  ELSE FormEncode(Head(params).name) \o "=" \o FormEncode(StringOf(Head(params).value))
       \o (IF Len(params) > 1 THEN "&" ELSE "") \o URLSearchParams(Tail(params))

\* getCacheKey serializing the parameters the way the URL does
getCacheKey_queryString(endpoint, params) ==
  endpoint \o ":" \o URLSearchParams(params)

\* line 22
getCacheKey(endpoint, params) == endpoint \o ":" \o JSONstringify(params)

\* line 63: Date.now() at clock t, a number too large for one integer of
\* the model: num milliseconds after 00:00 of day
DateNow(t) == [js |-> "number", num |-> t, day |-> day]

\* String(ts) of such a number: the decimal digits of
\* ts.day * 86400000 + ts.num, the last five written apart
DecimalOf(ts) ==
  LET high == ts.day * 864 + ts.num \div 100000
      low == ts.num % 100000
  IN IF high = 0 THEN ToString(low)
     ELSE ToString(high) \o SubSeq(ToString(100000 + low), 2, 6)

\* lines 46-51; the HMAC itself is kept symbolic: its key and its message
calcSign(url, paramStr, ts, secretKey) ==
  [hmac |-> "sha256", key |-> secretKey,
   strToSign |-> DecimalOf(ts) \o "." \o url \o "." \o paramStr]

-----------------------------------------------------------------------------
(* renogyRequest: lines 54-88.  A call is `inflight` between axios.get and *)
(* the upstream answer, then `resolved` with response.data or `rejected`   *)
(* with the axios error; a cache hit is resolved at once.                  *)

NoCall ==
  [st |-> "none", endpoint |-> "", params |-> << >>, cacheKey |-> "", calledAt |-> 0,
   cached |-> Undefined, deleted |-> FALSE, fullUrl |-> "", accessKey |-> Undefined,
   timestamp |-> Undefined, signature |-> Undefined, result |-> Undefined]

\* line 48: crypto.createHmac('sha256', undefined) throws
HmacTypeError ==
  [js |-> "error",
   message |-> "The \"key\" argument must be of type string or an instance of "
               \o "ArrayBuffer, Buffer, TypedArray, DataView, KeyObject, or "
               \o "CryptoKey. Received undefined",
   response |-> Undefined]

\* lines 56-78: the call record after the synchronous part of renogyRequest
\* called at time t.  `cached` is the local of line 57, `deleted` tells
\* whether getFromCache ran cache.delete (line 31); on a miss fullUrl,
\* accessKey, timestamp and signature are those of the GET that was issued.
\* Without a secret key calcSign throws at line 66, before any GET: the
\* promise of the call is rejected at once.
renogyRequest(c, t, endpoint, params) ==
  LET cacheKey == getCacheKey(endpoint, params)
      cached == getFromCache(c, t, cacheKey)
      deleted == getFromCacheDelete(c, t, cacheKey) # c
      paramStr == URLSearchParams(params)
  IN IF Truthy(cached)
     THEN [st |-> "resolved", endpoint |-> endpoint, params |-> params,
           cacheKey |-> cacheKey,
           calledAt |-> t, cached |-> cached, deleted |-> deleted,
           fullUrl |-> "", accessKey |-> Undefined,
           timestamp |-> Undefined, signature |-> Undefined,
           result |-> cached]
     ELSE IF SECRET_KEY = Undefined
     THEN [st |-> "rejected", endpoint |-> endpoint, params |-> params,
           cacheKey |-> cacheKey,
           calledAt |-> t, cached |-> cached, deleted |-> deleted,
           fullUrl |-> "", accessKey |-> Undefined,
           timestamp |-> Undefined, signature |-> Undefined,
           result |-> HmacTypeError]
     ELSE [st |-> "inflight", endpoint |-> endpoint, params |-> params,
           cacheKey |-> cacheKey,
           calledAt |-> t, cached |-> cached, deleted |-> deleted,
           fullUrl |-> RENOGY_BASE_URL \o endpoint
                       \o (IF paramStr # "" THEN "?" \o paramStr ELSE ""),
           accessKey |-> ACCESS_KEY,
           timestamp |-> DateNow(t),
           signature |-> calcSign(endpoint, paramStr, DateNow(t), SECRET_KEY),
           result |-> Undefined]

\* line 57: the cache after the synchronous part of renogyRequest
renogyRequestCache(c, t, endpoint, params) ==
  getFromCacheDelete(c, t, getCacheKey(endpoint, params))

Settled(call) == call.st \in {"resolved", "rejected"}

-----------------------------------------------------------------------------
(* The vendor API: the device trees it reports, the payloads of the        *)
(* enrichment endpoints and the errors axios raises.                       *)

Sub11 == [js |-> "object", deviceId |-> Num(11), name |-> Str("Controller House")]
Sub12 == [js |-> "object", deviceId |-> Num(12), name |-> Str("Battery")]
Hub1(sublist) ==
  [js |-> "object", deviceId |-> Num(1), name |-> Str("Hub"), sublist |-> Arr(sublist)]
Dev2 == [js |-> "object", deviceId |-> Num(2), name |-> Str("Solo")]

\* Payloads of /device/list
DeviceLists ==
  { Arr(<< >>), Arr(<<Hub1(<<Sub11, Sub12>>)>>), Arr(<<Hub1(<<Sub11>>), Dev2>>) }

DeviceIds == {Num(1), Num(2), Num(11), Num(12)}

\* Payloads of /device/data/latest/:id -- with readings, without a data
\* field, and the JSON body `null`
LatestPayloads ==
  { [js |-> "object", data |-> [js |-> "object", batteryLevel |-> Num(72)]],
    [js |-> "object", code |-> Num(0)],
    Null }

\* Payloads of /device/alarm/:id -- a list of alarms, and an empty body
AlarmPayloads == { Arr(<<Str("overvoltage")>>), Str("") }

\* Payloads of the endpoints only the passthrough routes use
OtherPayloads == { [js |-> "object", code |-> Num(0)] }

\* axios errors: a non-2xx answer carries error.response, a transport
\* failure carries none
HttpError ==
  [js |-> "error", message |-> "Request failed with status code 401",
   response |-> [status |-> Num(401),
                 data |-> [js |-> "object", msg |-> Str("unauthorized")]]]
NetworkError ==
  [js |-> "error", message |-> "connect ETIMEDOUT", response |-> Undefined]
\* a non-2xx answer without a body: axios sets error.response.data to ""
HttpErrorNoBody ==
  [js |-> "error", message |-> "Request failed with status code 502",
   response |-> [status |-> Num(502), data |-> Str("")]]
\* a non-2xx answer of the status and the parsed body given
HttpErrorWith(status, data) ==
  [js |-> "error",
   message |-> "Request failed with status code " \o ToString(status),
   response |-> [status |-> Num(status), data |-> data]]
\* non-2xx answers whose JSON body is null, 0 or false
FalsyBodyErrors ==
  {HttpErrorWith(503, Null), HttpErrorWith(429, Num(0)),
   HttpErrorWith(404, Bool(FALSE))}
Errors == {HttpError, HttpErrorNoBody, NetworkError} \cup FalsyBodyErrors

ListEndpoint == "/device/list"
LatestEndpoint(id) == "/device/data/latest/" \o StringOf(id)
AlarmEndpoint(id) == "/device/alarm/" \o StringOf(id)
DatamapEndpoint(id) == "/device/datamap/" \o StringOf(id)
HistoryEndpoint(id) == "/device/data/history/" \o StringOf(id)
LogEndpoint(id) == "/device/log/" \o StringOf(id)

PayloadsFor(endpoint) ==
  IF endpoint = ListEndpoint THEN DeviceLists
  ELSE IF endpoint \in {LatestEndpoint(d) : d \in DeviceIds} THEN LatestPayloads
  ELSE IF endpoint \in {AlarmEndpoint(d) : d \in DeviceIds} THEN AlarmPayloads
  ELSE OtherPayloads

\* The status of every failure taken to be 500
StatusOf_always500(error) == Num(500)

\* error.response?.status || 500
StatusOf(error) ==
  IF error.response = Undefined THEN Num(500)
  ELSE OrElse(error.response.status, Num(500))

\* The upstream body passed on even when it is empty
DetailsOf_bodyOnly(error) ==
  IF error.response = Undefined THEN Str(error.message)
  ELSE error.response.data

\* error.response?.data || error.message
DetailsOf(error) ==
  IF error.response = Undefined THEN Str(error.message)
  ELSE OrElse(error.response.data, Str(error.message))

\* res.status(error.response?.status || 500).json({ error, details })
ErrorEnvelope(text, error) ==
  [status |-> StatusOf(error),
   body |-> [js |-> "object", error |-> Str(text), details |-> DetailsOf(error)]]

-----------------------------------------------------------------------------
(* Call ids: the call of a passthrough handler is named by the handler's   *)
(* slot; a call of the dashboard handler is named by its endpoint.         *)

\* Passthrough requests the server handles at the same time
PtSlotSeq == <<"pt1", "pt2">>
PtSlots == {PtSlotSeq[i] : i \in 1..Len(PtSlotSeq)}
DashCallIds ==
  {ListEndpoint} \cup {LatestEndpoint(d) : d \in DeviceIds}
                 \cup {AlarmEndpoint(d) : d \in DeviceIds}
\* The call of the GET /api/test handler
TestCallId == "test"
CallIds == PtSlots \cup DashCallIds \cup {TestCallId}

\* The failures drawn for call id.  The rejection of an enrichment call of
\* the dashboard is replaced by a default without being read (lines
\* 216-217, 227-228: `.catch(() => ...)`), so three of them stand for all.
FailuresOf(id) ==
  IF id \in DashCallIds \ {ListEndpoint}
  THEN {HttpError, HttpErrorNoBody, NetworkError}
  ELSE Errors

\* The two enrichment calls of one device, in the order they are issued
\* (lines 215-218, 226-229)
EnrichEndpoints(device) ==
  <<LatestEndpoint(device.deviceId), AlarmEndpoint(device.deviceId)>>

\* The devices enriched one after the other: only the first one's calls are
\* issued at once
EnrichAll_sequential(devices) ==
  IF devices = << >> THEN << >>
  ELSE EnrichEndpoints(Head(devices))

RECURSIVE EnrichAll(_)
\* The enrichment calls of a list of devices, in the order .map issues them
EnrichAll(devices) ==
  IF devices = << >> THEN << >>
  ELSE EnrichEndpoints(Head(devices)) \o EnrichAll(Tail(devices))

Range(seq) == {seq[i] : i \in 1..Len(seq)}

RECURSIVE CacheAfter(_, _, _)
\* The cache after the synchronous parts of renogyRequest(ep) for each ep
CacheAfter(c, t, eps) ==
  IF eps = << >> THEN c
  ELSE CacheAfter(renogyRequestCache(c, t, Head(eps), << >>), t, Tail(eps))

\* The call records after renogyRequest(ep) was called for each ep in order
CallsAfter(cs, c, t, eps) ==
  [id \in CallIds |->
     IF \E i \in 1..Len(eps) : eps[i] = id
     THEN LET i == CHOOSE j \in 1..Len(eps) : eps[j] = id
          IN renogyRequest(CacheAfter(c, t, SubSeq(eps, 1, i - 1)), t, id, << >>)
     ELSE cs[id]]

\* device.sublist && device.sublist.length > 0  (line 222)
HasSublist(device) ==
  /\ Truthy(Prop(device, "sublist"))
  /\ Len(device.sublist.items) > 0

-----------------------------------------------------------------------------
(* GET /api/dashboard, lines 205-275: the records it assembles *)

\* renogyRequest(latest).catch(() => ({ data: {} }))
LatestOr(call) ==
  IF call.st = "rejected" THEN [js |-> "object", data |-> EmptyObject]
  ELSE call.result

\* renogyRequest(alarm).catch(() => [])
AlarmsOr(call) ==
  IF call.st = "rejected" THEN Arr(<< >>) ELSE call.result

\* lines 225-244: the record of one sub-device once its two calls settled
SubDeviceRecord(cs, subDevice) ==
  LET subLatest == LatestOr(cs[LatestEndpoint(subDevice.deviceId)])
      subAlarms == AlarmsOr(cs[AlarmEndpoint(subDevice.deviceId)])
  IN IF PropThrows(subLatest)
     THEN Spread(subDevice,
                 [latestData |-> EmptyObject, alarms |-> Arr(<< >>),
                  error |-> Str(TypeErrorOf("data").message)])
     ELSE Spread(subDevice,
                 [latestData |-> OrElse(Prop(subLatest, "data"), EmptyObject),
                  alarms |-> OrElse(subAlarms, Arr(<< >>))])

\* lines 221-247: sublistWithData
SublistWithData(cs, device) ==
  IF HasSublist(device)
  THEN [i \in 1..Len(device.sublist.items) |->
          SubDeviceRecord(cs, device.sublist.items[i])]
  ELSE << >>

\* lines 213-264: the record of one top-level device once all its calls settled
DeviceRecord(cs, device) ==
  LET latest == LatestOr(cs[LatestEndpoint(device.deviceId)])
      alarms == AlarmsOr(cs[AlarmEndpoint(device.deviceId)])
  IN IF PropThrows(latest)
     THEN Spread(device,
                 [latestData |-> EmptyObject, alarms |-> Arr(<< >>),
                  sublist |-> Arr(<< >>),
                  error |-> Str(TypeErrorOf("data").message)])
     ELSE Spread(device,
                 [latestData |-> OrElse(Prop(latest, "data"), EmptyObject),
                  alarms |-> OrElse(alarms, Arr(<< >>)),
                  sublist |-> Arr(SublistWithData(cs, device))])

\* The callback returning without awaiting the Promise.all of its sub-devices
DeviceDone_noJoin(i) == dash.phase[i] \in {"done", "subs"}

\* The async callback of devices.map for device i has returned
DeviceDone(i) ==
  \/ dash.phase[i] = "done"
  \/ /\ dash.phase[i] = "subs"
     /\ \A ep \in Range(EnrichAll(dash.devices.items[i].sublist.items)) :
          Settled(calls[ep])

NoResponse == [status |-> Undefined, body |-> Undefined]

-----------------------------------------------------------------------------
(* The client, public/app.js.  Its numbers are IEEE 754 doubles, here not  *)
(* negative and neither infinite nor subnormal.  Num(n) is the integer n;  *)
(* Frac(n, d) is the double nearest to n/d, which is what JSON.parse makes *)
(* of a decimal literal and what the division of two integers gives; any   *)
(* other double is written by its 53 significant bits, Double(mant, exp).  *)

Frac(n, d) == [js |-> "number", num |-> n, den |-> d]
Den(v) == IF "den" \in DOMAIN v THEN v.den ELSE 1

RECURSIVE GCD(_, _)
GCD(a, b) == IF b = 0 THEN a ELSE GCD(b, a % b)

\* The number n/d, d > 0
Quotient(n, d) ==
  LET g == GCD(n, d)
  IN IF g = d THEN Num(n \div d) ELSE Frac(n \div g, d \div g)

\* The exponent of the double nearest to n/d, n > 0: the k with
\* 2^k <= n/d < 2^(k+1)
RECURSIVE Exponent(_, _)
Exponent(n, d) ==
  IF n >= 2 * d THEN Exponent(n, 2 * d) + 1
  ELSE IF n < d THEN Exponent(2 * n, d) - 1
  ELSE 0

\* The number m/20, m odd, lies halfway between two decimals of one digit.
\* The script holds the double nearest to it (a JSON literal, or the
\* quotient of two integers), which is m/20 itself when 5 divides m and
\* otherwise lies above or below it: with 53 significant bits the part of
\* m/20 that is cut off is r/5 of the last bit, r = m * 2^(50-k) mod 5, and
\* the double is the larger neighbour when r > 2.
DoubleNotBelow(m) ==
  LET k == Exponent(m, 20)
      pow == <<1, 2, 4, 3>>[((50 - k) % 4) + 1]
      r == ((m % 5) * pow) % 5
  IN r = 0 \/ r > 2

\* The double of significant bits mant, the first one 1 and worth 2^exp
Double(mant, exp) == [js |-> "number", mant |-> mant, exp |-> exp]

\* The natural number written by bits
RECURSIVE IntOf(_)
IntOf(bits) ==
  IF bits = << >> THEN 0
  ELSE 2 * IntOf(SubSeq(bits, 1, Len(bits) - 1)) + bits[Len(bits)]

\* a + b of two bit strings of one length
BitAdd(a, b) ==
  LET carry == [i \in 0..Len(a) |->
                  \E j \in (i + 1)..Len(a) :
                     /\ a[j] + b[j] = 2
                     /\ \A k \in (i + 1)..(j - 1) : a[k] + b[k] = 1]
  IN (IF carry[0] THEN <<1>> ELSE << >>)
       \o [i \in 1..Len(a) |-> (a[i] + b[i] + (IF carry[i] THEN 1 ELSE 0)) % 2]

\* Rounding to nearest, ties to even: the double nearest to the number
\* written by bits, the first one 1 and worth 2^exp, followed by more bits
\* of which some is 1 exactly if sticky; bits has 55 bits or more if sticky
Round(bits, exp, sticky) ==
  LET padded == IF Len(bits) >= 55 THEN bits
                ELSE bits \o [i \in 1..(55 - Len(bits)) |-> 0]
      head == SubSeq(padded, 1, 53)
      up == /\ padded[54] = 1
            /\ \/ sticky
               \/ \E i \in 55..Len(padded) : padded[i] = 1
               \/ head[53] = 1
      zeros == {i \in 1..53 : head[i] = 0}
      last == CHOOSE i \in zeros : \A j \in zeros : j <= i
  IN IF ~up THEN Double(head, exp)
     ELSE IF zeros = {}
     THEN Double([i \in 1..53 |-> IF i = 1 THEN 1 ELSE 0], exp + 1)
     ELSE Double([i \in 1..53 |-> IF i < last THEN head[i]
                                  ELSE IF i = last THEN 1 ELSE 0], exp)

\* The bits of a number v > 0: those of the double nearest to n/d for
\* Num and Frac, n and d below 2^17
ToDouble(v) ==
  IF "mant" \in DOMAIN v THEN v
  ELSE LET k == Exponent(v.num, Den(v))
           n == IF k < 0 THEN v.num * 2^(0 - k) ELSE v.num
           d == IF k < 0 THEN Den(v) ELSE Den(v) * 2^k
           RECURSIVE Bits(_, _, _)
           \* acc and then 14 * count bits more of the quotient
           Bits(acc, r, count) ==
             IF count = 0 THEN [bits |-> acc, rem |-> r]
             ELSE Bits(acc \o [i \in 1..14 |->
                                 (((r * 2^14) \div d) \div 2^(14 - i)) % 2],
                       (r * 2^14) % d, count - 1)
           q == Bits(<<1>>, n - d, 4)
       IN Round(q.bits, k, q.rem # 0)

\* A double written the short way where there is one: an integer below
\* 2^30 as Num, a multiple of 2^-j, j <= 20, below 2^30 as Frac
Normal(x) ==
  LET last == CHOOSE i \in 1..53 :
                x.mant[i] = 1 /\ \A j \in (i + 1)..53 : x.mant[j] = 0
      shift == x.exp - last + 1
  IN IF last <= 30 /\ shift >= 0 /\ x.exp < 30
     THEN Num(IntOf(SubSeq(x.mant, 1, last)) * 2^shift)
     ELSE IF last <= 30 /\ shift < 0 /\ shift >= 0 - 20
     THEN Frac(IntOf(SubSeq(x.mant, 1, last)), 2^(0 - shift))
     ELSE x

\* x + y of two doubles > 0
AddD(x, y) ==
  LET hi == IF x.exp >= y.exp THEN x ELSE y
      lo == IF x.exp >= y.exp THEN y ELSE x
      shift == hi.exp - lo.exp
      zeros == [i \in 1..shift |-> 0]
      total == BitAdd(hi.mant \o zeros, zeros \o lo.mant)
  IN IF shift > 64 THEN hi
     ELSE Round(total, hi.exp + Len(total) - (53 + shift), FALSE)

\* line 163: a + b of two numbers
Plus(a, b) ==
  IF "mant" \notin DOMAIN a /\ a.num = 0 THEN b
  ELSE IF "mant" \notin DOMAIN b /\ b.num = 0 THEN a
  ELSE IF DOMAIN a = DOMAIN Num(0) /\ DOMAIN b = DOMAIN Num(0)
  THEN Num(a.num + b.num)
  ELSE Normal(AddD(ToDouble(a), ToDouble(b)))

\* line 168: a / count, count an integer in 1..1000
DividedBy(a, count) ==
  IF DOMAIN a = DOMAIN Num(0) THEN Quotient(a.num, count)
  ELSE IF count = 1 THEN a
  ELSE LET x == ToDouble(a)
           RECURSIVE Divide(_, _, _)
           \* long division, 15 bits of b at a time
           Divide(acc, r, b) ==
             IF b = << >> THEN [bits |-> acc, rem |-> r]
             ELSE Divide(acc \o [i \in 1..15 |->
                                   (((r * 2^15 + IntOf(SubSeq(b, 1, 15)))
                                       \div count) \div 2^(15 - i)) % 2],
                         (r * 2^15 + IntOf(SubSeq(b, 1, 15))) % count,
                         SubSeq(b, 16, Len(b)))
           q == Divide(<< >>, 0, x.mant \o [i \in 1..22 |-> 0])
           first == CHOOSE i \in 1..Len(q.bits) :
                      q.bits[i] = 1 /\ \A j \in 1..(i - 1) : q.bits[j] = 0
       IN Normal(Round(SubSeq(q.bits, first, Len(q.bits)), x.exp - (first - 1),
                       q.rem # 0))

\* lines 50, 52: a >= b of two numbers
AtLeast(a, b) ==
  IF "mant" \notin DOMAIN a /\ "mant" \notin DOMAIN b
  THEN a.num * Den(b) >= b.num * Den(a)
  ELSE IF "mant" \notin DOMAIN b /\ b.num = 0 THEN TRUE
  ELSE IF "mant" \notin DOMAIN a /\ a.num = 0 THEN FALSE
  ELSE LET x == ToDouble(a)
           y == ToDouble(b)
           differ == {i \in 1..53 : x.mant[i] # y.mant[i]}
       IN \/ x.exp > y.exp
          \/ /\ x.exp = y.exp
             /\ \/ differ = {}
                \/ x.mant[CHOOSE i \in differ : \A j \in differ : i <= j] = 1

\* Number.prototype.toFixed for a number >= 0 below 2^30 and 0 or 1
\* decimals: the decimal nearest to the double, the larger one of two
\* equally near
toFixed(v, decimals) ==
  LET scale == IF decimals = 0 THEN 1 ELSE 10
      n == IF "mant" \in DOMAIN v
           THEN LET \* the bits of v * scale: 10 v = 8 v + 2 v
                    product == IF decimals = 0 THEN v.mant
                               ELSE BitAdd(v.mant \o <<0, 0, 0>>,
                                           <<0, 0>> \o v.mant \o <<0>>)
                    exp == v.exp + Len(product) - 53
                    whole == IF exp < 0 THEN 0
                             ELSE IntOf(SubSeq(product, 1, exp + 1))
                    half == IF exp >= 0 - 1 THEN product[exp + 2] ELSE 0
                IN whole + half
           ELSE LET floor == (v.num * scale) \div Den(v)
                    twice == 2 * ((v.num * scale) % Den(v))
                IN IF twice < Den(v) THEN floor
                   ELSE IF twice > Den(v) THEN floor + 1
                   ELSE IF decimals = 0 \/ DoubleNotBelow(2 * floor + 1)
                   THEN floor + 1
                   ELSE floor
  IN IF decimals = 0 THEN ToString(n)
     ELSE ToString(n \div scale) \o "." \o ToString(n % scale)

\* lines 61-64
formatNumber(value, decimals) ==
  IF value.js \in {"null", "undefined"} THEN "--" ELSE toFixed(value, decimals)

\* The texts, classes and inline styles the script sets.  gaugePercentage
\* stands for style.strokeDashoffset, which is
\* circumference - (percentage / 100) * circumference.
NoDisplay ==
  [loadingHidden |-> FALSE, errorDisplay |-> "", errorMessage |-> "",
   deviceName |-> "", solarPower |-> "", solarAmps |-> "", solarVolts |-> "",
   batteriesSectionHidden |-> FALSE, combinedBatteryHidden |-> FALSE,
   totalBatteryDisplayHidden |-> FALSE,
   battery1Percent |-> "", battery1Volts |-> "",
   battery2Percent |-> "", battery2Volts |-> "",
   gaugePercentage |-> Undefined, gaugeStroke |-> "",
   combinedValue |-> "", totalBatteryPercent |-> ""]

Green == "#4caf50"
Yellow == "#ffc107"
Red == "#f44336"

\* lines 34-39: strokeDashoffset = circumference
initGauge(el) == [el EXCEPT !.gaugePercentage = Num(0)]

\* lines 42-58
updateGauge(el, percentage) ==
  [el EXCEPT !.gaugePercentage = percentage,
             !.gaugeStroke = IF AtLeast(percentage, Num(50)) THEN Green
                             ELSE IF AtLeast(percentage, Num(25)) THEN Yellow
                             ELSE Red]

\* sublist.find(d => d[field] === value)
Find(seq, field, value) ==
  LET Matches(d) == Prop(d, field) = value
      found == SelectSeq(seq, Matches)
  IN IF found = << >> THEN Undefined ELSE Head(found)

\* sublist.filter(d => d[field] === value)
Filter(seq, field, value) ==
  LET Matches(d) == Prop(d, field) = value
  IN SelectSeq(seq, Matches)

\* organizeDevices giving the shed the batteries too
organizeDevices_shedBatteries(data) ==
  IF ~Truthy(data) \/ Len(data.items) = 0 THEN Null
  ELSE LET mainDevice == data.items[1]
           sublist == OrElse(Prop(mainDevice, "sublist"), Arr(<< >>)).items
       IN [js |-> "object",
           house |-> [controller |-> Find(sublist, "name", Str("Controller House")),
                      batteries |-> Filter(sublist, "category", Str("Battery")),
                      name |-> "House"],
           shed |-> [controller |-> Find(sublist, "name", Str("Controller Shed")),
                     batteries |-> Filter(sublist, "category", Str("Battery")),
                     name |-> "Shed"]]

\* lines 67-89
organizeDevices(data) ==
  IF ~Truthy(data) \/ Len(data.items) = 0 THEN Null
  ELSE LET mainDevice == data.items[1]
           sublist == OrElse(Prop(mainDevice, "sublist"), Arr(<< >>)).items
       IN [js |-> "object",
           house |-> [controller |-> Find(sublist, "name", Str("Controller House")),
                      batteries |-> Filter(sublist, "category", Str("Battery")),
                      name |-> "House"],
           shed |-> [controller |-> Find(sublist, "name", Str("Controller Shed")),
                     batteries |-> << >>,
                     name |-> "Shed"]]

\* showError that leaves the loading indicator alone
showError_keepLoading(el, message) ==
  [el EXCEPT !.errorDisplay = "block", !.errorMessage = message]

\* lines 201-205
showError(el, message) ==
  [el EXCEPT !.loadingHidden = TRUE, !.errorDisplay = "block",
             !.errorMessage = message]

\* battery.latestData || {}
LatestDataOf(battery) == OrElse(Prop(battery, "latestData"), EmptyObject)

\* The mean taken over every battery, reporting a level or not
CombinedTotals_countAll(batteries) ==
  [totalLevel |->
     LET RECURSIVE Sum(_)
         Sum(bs) ==
           IF bs = << >> THEN Num(0)
           ELSE IF Prop(LatestDataOf(Head(bs)), "batteryLevel") = Undefined
           THEN Sum(Tail(bs))
           ELSE Plus(LatestDataOf(Head(bs)).batteryLevel, Sum(Tail(bs)))
     IN Sum(batteries),
   count |-> Len(batteries)]

RECURSIVE CombinedTotals(_)
\* lines 158-166: totalLevel and count after the forEach
CombinedTotals(batteries) ==
  IF batteries = << >> THEN [totalLevel |-> Num(0), count |-> 0]
  ELSE LET rest == CombinedTotals(SubSeq(batteries, 1, Len(batteries) - 1))
           data == LatestDataOf(batteries[Len(batteries)])
       IN IF Prop(data, "batteryLevel") # Undefined
          THEN [totalLevel |-> Plus(rest.totalLevel, data.batteryLevel),
                count |-> rest.count + 1]
          ELSE rest

\* line 168: count > 0 ? totalLevel / count : 0
CombinedLevel(batteries) ==
  LET totals == CombinedTotals(batteries)
  IN IF totals.count > 0
     THEN DividedBy(totals.totalLevel, totals.count)
     ELSE Num(0)

\* lines 136-173
updateBatteries(el, batteries) ==
  LET b1 == IF Len(batteries) >= 1 THEN LatestDataOf(batteries[1]) ELSE EmptyObject
      b2 == IF Len(batteries) >= 2 THEN LatestDataOf(batteries[2]) ELSE EmptyObject
      combinedLevel == CombinedLevel(batteries)
      el1 == [el EXCEPT
                !.battery1Percent =
                   IF Len(batteries) >= 1
                   THEN formatNumber(OrElse(Prop(b1, "batteryLevel"), Num(0)), 0) \o "%"
                   ELSE "--%",
                !.battery1Volts =
                   IF Len(batteries) >= 1
                   THEN formatNumber(OrElse(Prop(b1, "presentVolts"), Num(0)), 1) \o " V"
                   ELSE "-- V",
                !.battery2Percent =
                   IF Len(batteries) >= 2
                   THEN formatNumber(OrElse(Prop(b2, "batteryLevel"), Num(0)), 0) \o "%"
                   ELSE "--%",
                !.battery2Volts =
                   IF Len(batteries) >= 2
                   THEN formatNumber(OrElse(Prop(b2, "presentVolts"), Num(0)), 1) \o " V"
                   ELSE "-- V"]
  IN [updateGauge(el1, combinedLevel) EXCEPT
        !.combinedValue = formatNumber(combinedLevel, 0) \o "%",
        !.totalBatteryPercent = formatNumber(combinedLevel, 0) \o "%",
        !.totalBatteryDisplayHidden = FALSE]

\* lines 92-133, for the rawData and currentLocation given.  organized
\* always has the two locations, so line 102 never holds.
updateDisplay(raw, loc, el) ==
  IF ~Truthy(raw) THEN el
  ELSE IF organizeDevices(raw) = Null THEN showError(el, "No device data available")
  ELSE LET location == organizeDevices(raw)[loc]
           controller == location.controller
           hasData == Truthy(controller) /\ Truthy(Prop(controller, "latestData"))
           data == IF hasData THEN controller.latestData ELSE EmptyObject
           el1 == [el EXCEPT
                     !.deviceName = location.name,
                     !.solarPower =
                        IF hasData
                        THEN formatNumber(OrElse(Prop(data, "solarWatts"), Num(0)), 1) \o " W"
                        ELSE "-- W",
                     !.solarAmps =
                        IF hasData
                        THEN formatNumber(OrElse(Prop(data, "solarAmps"), Num(0)), 1) \o " A"
                        ELSE "-- A",
                     !.solarVolts =
                        IF hasData
                        THEN formatNumber(OrElse(Prop(data, "solarVolts"), Num(0)), 1) \o " V"
                        ELSE "-- V"]
       IN IF Len(location.batteries) > 0
          THEN updateBatteries([el1 EXCEPT !.batteriesSectionHidden = FALSE,
                                           !.combinedBatteryHidden = FALSE],
                               location.batteries)
          ELSE [el1 EXCEPT !.batteriesSectionHidden = TRUE,
                           !.combinedBatteryHidden = TRUE,
                           !.totalBatteryDisplayHidden = TRUE]

-----------------------------------------------------------------------------
\* Both keys configured in .env
\* The day the process is started on, 2024-10-15, and the days the key
\* specification starts it on: 1970-01-01, 2024-01-31, 2024-10-15 and
\* 2025-11-02
StartDay == 20011
BootDays == {0, 19753, StartDay, 20394}

KeysConfigured == [ACCESS_KEY |-> Str("access"), SECRET_KEY |-> Str("secret")]

\* The page as the browser loaded it, before init() runs: the variables of
\* app.js lines 6-8, no inline style or text set by the script yet, no
\* timer, no fetch
ClientInit ==
  /\ rawData = Null
  /\ currentLocation = "house"
  /\ refreshTimer = Null
  /\ elements = NoDisplay
  /\ document = [hidden |-> FALSE]
  /\ timers = [live |-> {}, created |-> 0]
  /\ cycles = [c \in 1..MaxFetches |-> "none"]
  /\ initCall = [pc |-> "start", cycle |-> 0]

\* The server process after app.listen, started with the keys given
ServerStart(keys) ==
  /\ day = StartDay
  /\ now = 0
  /\ ticks = 0
  /\ cache = {}
  /\ calls = [id \in CallIds |-> NoCall]
  /\ dash = [pc |-> "idle", devices |-> Undefined, phase |-> << >>,
             response |-> NoResponse]
  /\ pt = [slot \in PtSlots |->
             [pc |-> "idle", route |-> "", response |-> NoResponse]]
  /\ requests = 0
  /\ env = keys
  /\ test = [pc |-> "idle", response |-> NoResponse]

Init == ServerStart(KeysConfigured) /\ ClientInit

\* Time passes between two events: exactly the time to live, or one
\* millisecond more
Tick ==
  /\ ticks < MaxTicks
  /\ \E d \in {CACHE_TTL, CACHE_TTL + 1} : now' = now + d
  /\ ticks' = ticks + 1
  /\ UNCHANGED <<cache, calls, dash, pt, requests>>
  /\ UNCHANGED <<day, env, test, clientVars>>

\* One answer of the vendor resolving every call in flight for the same key
UpstreamRespond_coalesced(id) ==
  /\ calls[id].st = "inflight"
  /\ \E data \in PayloadsFor(calls[id].endpoint) :
       /\ cache' = setCache(cache, now, calls[id].cacheKey, data)
       /\ calls' = [other \in CallIds |->
                      IF calls[other].st = "inflight"
                         /\ calls[other].cacheKey = calls[id].cacheKey
                      THEN [calls[other] EXCEPT !.st = "resolved", !.result = data]
                      ELSE calls[other]]
  /\ UNCHANGED <<now, ticks, dash, pt, requests>>
  /\ UNCHANGED <<day, env, test, clientVars>>

\* lines 72-83: the vendor answers call id with a 2xx response
UpstreamRespond(id) ==
  /\ calls[id].st = "inflight"
  /\ \E data \in PayloadsFor(calls[id].endpoint) :
       /\ cache' = setCache(cache, now, calls[id].cacheKey, data)
       /\ calls' = [calls EXCEPT ![id].st = "resolved", ![id].result = data]
  /\ UNCHANGED <<now, ticks, dash, pt, requests>>
  /\ UNCHANGED <<day, env, test, clientVars>>

\* lines 84-87: axios.get of call id fails
UpstreamFail(id) ==
  /\ calls[id].st = "inflight"
  /\ \E error \in FailuresOf(id) :
       calls' = [calls EXCEPT ![id].st = "rejected", ![id].result = error]
  /\ UNCHANGED <<now, ticks, cache, dash, pt, requests>>
  /\ UNCHANGED <<day, env, test, clientVars>>

\* lines 205-208: a GET /api/dashboard request arrives
DashboardStart ==
  /\ dash.pc \in {"idle", "responded"}
  /\ requests < MaxRequests
  /\ requests' = requests + 1
  /\ calls' = CallsAfter([id \in CallIds |-> IF id \in DashCallIds THEN NoCall ELSE calls[id]],
                         cache, now, <<ListEndpoint>>)
  /\ cache' = CacheAfter(cache, now, <<ListEndpoint>>)
  /\ dash' = [pc |-> "list", devices |-> Undefined, phase |-> << >>,
              response |-> NoResponse]
  /\ UNCHANGED <<now, ticks, pt>>
  /\ UNCHANGED <<day, env, test, clientVars>>

\* The device list failure swallowed like an enrichment failure: an empty
\* dashboard is sent
DashboardListFailed_swallowed ==
  /\ dash.pc = "list"
  /\ calls[ListEndpoint].st = "rejected"
  /\ dash' = [dash EXCEPT !.pc = "responded",
                !.response = [status |-> Num(200), body |-> Arr(<< >>)]]
  /\ UNCHANGED <<now, ticks, cache, calls, pt, requests>>
  /\ UNCHANGED <<day, env, test, clientVars>>

\* lines 208, 269-274: the device list call was rejected
DashboardListFailed ==
  /\ dash.pc = "list"
  /\ calls[ListEndpoint].st = "rejected"
  /\ dash' = [dash EXCEPT !.pc = "responded",
                !.response = ErrorEnvelope("Failed to fetch dashboard data",
                                           calls[ListEndpoint].result)]
  /\ UNCHANGED <<now, ticks, cache, calls, pt, requests>>
  /\ UNCHANGED <<day, env, test, clientVars>>

\* lines 208-218: the device list resolved; every top-level device's
\* callback issues its two calls
DashboardFanOut ==
  /\ dash.pc = "list"
  /\ calls[ListEndpoint].st = "resolved"
  /\ LET devices == calls[ListEndpoint].result
         eps == EnrichAll(devices.items)
     IN /\ calls' = CallsAfter(calls, cache, now, eps)
        /\ cache' = CacheAfter(cache, now, eps)
        /\ dash' = [dash EXCEPT !.pc = "fanout", !.devices = devices,
                      !.phase = [i \in 1..Len(devices.items) |-> "own"]]
  /\ UNCHANGED <<now, ticks, pt, requests>>
  /\ UNCHANGED <<day, env, test, clientVars>>

\* The callback of device i resumed only when both of its calls resolved,
\* a rejected call leaving it waiting
DeviceSublist_rejectionLost(i) ==
  /\ dash.pc = "fanout"
  /\ i \in 1..Len(dash.phase)
  /\ dash.phase[i] = "own"
  /\ \A ep \in Range(EnrichEndpoints(dash.devices.items[i])) :
       calls[ep].st = "resolved"
  /\ LET device == dash.devices.items[i]
         eps == IF HasSublist(device) THEN EnrichAll(device.sublist.items) ELSE << >>
     IN /\ calls' = CallsAfter(calls, cache, now, eps)
        /\ cache' = CacheAfter(cache, now, eps)
        /\ dash' = [dash EXCEPT !.phase[i] =
                      IF HasSublist(device) THEN "subs" ELSE "done"]
  /\ UNCHANGED <<now, ticks, pt, requests>>
  /\ UNCHANGED <<day, env, test, clientVars>>

\* lines 215-247: both calls of top-level device i settled; the callback
\* issues the calls of its sub-devices, if it has any
DeviceSublist(i) ==
  /\ dash.pc = "fanout"
  /\ i \in 1..Len(dash.phase)
  /\ dash.phase[i] = "own"
  /\ \A ep \in Range(EnrichEndpoints(dash.devices.items[i])) : Settled(calls[ep])
  /\ LET device == dash.devices.items[i]
         eps == IF HasSublist(device) THEN EnrichAll(device.sublist.items) ELSE << >>
     IN /\ calls' = CallsAfter(calls, cache, now, eps)
        /\ cache' = CacheAfter(cache, now, eps)
        /\ dash' = [dash EXCEPT !.phase[i] =
                      IF HasSublist(device) THEN "subs" ELSE "done"]
  /\ UNCHANGED <<now, ticks, pt, requests>>
  /\ UNCHANGED <<day, env, test, clientVars>>

\* lines 211, 268: every callback returned; res.json(dashboardData)
DashboardRespond ==
  /\ dash.pc = "fanout"
  /\ \A i \in 1..Len(dash.phase) : DeviceDone(i)
  /\ dash' = [dash EXCEPT !.pc = "responded",
                !.response =
                   [status |-> Num(200),
                    body |-> Arr([i \in 1..Len(dash.devices.items) |->
                                    DeviceRecord(calls, dash.devices.items[i])])]]
  /\ UNCHANGED <<now, ticks, cache, calls, pt, requests>>
  /\ UNCHANGED <<day, env, test, clientVars>>

-----------------------------------------------------------------------------
(* The passthrough routes, lines 93-173 *)

Routes == {"devices", "datamap", "latest", "history", "alarms", "logs"}

\* req.params.deviceId: a path segment, always a string
PathIds == {Str("1")}

\* new Date(): the year and the month of the calendar day that is z days
\* after 1970-01-01, in the Gregorian calendar; the server's time zone is
\* UTC
NewDate(z) ==
  LET shifted == z + 719468
      era == shifted \div 146097
      doe == shifted - era * 146097
      yoe == (doe - doe \div 1460 + doe \div 36524 - doe \div 146096) \div 365
      doy == doe - (365 * yoe + yoe \div 4 - yoe \div 100)
      mp == (5 * doy + 2) \div 153
      month == IF mp < 10 THEN mp + 3 ELSE mp - 9
  IN [year |-> yoe + era * 400 + (IF month <= 2 THEN 1 ELSE 0), month |-> month]

\* lines 136-137: new Date().getFullYear() and new Date().getMonth() + 1
CurrentYear == NewDate(day + now \div 86400000).year
CurrentMonth == NewDate(day + now \div 86400000).month

NoQuery == [year |-> Undefined, month |-> Undefined, utcOffsetHours |-> Undefined]

\* req.query of the requests the model sends to the history route
Queries ==
  { NoQuery,
    [year |-> Str("2024"), month |-> Str("10"), utcOffsetHours |-> Str("0")] }

\* lines 136-138: the parameter mapping of the history route
HistoryParams(query) ==
  << [name |-> "year", value |-> OrElse(query.year, Num(CurrentYear))],
     [name |-> "month", value |-> OrElse(query.month, Num(CurrentMonth))],
     [name |-> "utcOffsetHours", value |-> OrElse(query.utcOffsetHours, Num(0))] >>

RouteEndpoint(route, deviceId) ==
  CASE route = "devices" -> ListEndpoint
    [] route = "datamap" -> DatamapEndpoint(deviceId)
    [] route = "latest" -> LatestEndpoint(deviceId)
    [] route = "history" -> HistoryEndpoint(deviceId)
    [] route = "alarms" -> AlarmEndpoint(deviceId)
    [] route = "logs" -> LogEndpoint(deviceId)

RouteParams(route, query) ==
  IF route = "history" THEN HistoryParams(query) ELSE << >>

RouteErrorText(route) ==
  CASE route = "devices" -> "Failed to fetch devices"
    [] route = "datamap" -> "Failed to fetch device datamap"
    [] route = "latest" -> "Failed to fetch latest device data"
    [] route = "history" -> "Failed to fetch device history"
    [] route = "alarms" -> "Failed to fetch device alarms"
    [] route = "logs" -> "Failed to fetch device logs"

\* The slot a new passthrough request takes: the first one not awaiting
FreeSlot(slot) ==
  \E i \in 1..Len(PtSlotSeq) :
     /\ PtSlotSeq[i] = slot
     /\ pt[slot].pc \in {"idle", "responded"}
     /\ \A j \in 1..(i - 1) : pt[PtSlotSeq[j]].pc = "await"

\* A request for one of the passthrough routes arrives: its handler calls
\* renogyRequest
PassthroughStart(slot, route, deviceId, query) ==
  /\ FreeSlot(slot)
  /\ requests < MaxRequests
  /\ requests' = requests + 1
  /\ LET endpoint == RouteEndpoint(route, deviceId)
         params == RouteParams(route, query)
     IN /\ calls' = [calls EXCEPT ![slot] =
                       renogyRequest(cache, now, endpoint, params)]
        /\ cache' = renogyRequestCache(cache, now, endpoint, params)
  /\ pt' = [pt EXCEPT ![slot] =
              [pc |-> "await", route |-> route, response |-> NoResponse]]
  /\ UNCHANGED <<now, ticks, dash>>
  /\ UNCHANGED <<day, env, test, clientVars>>

\* The handler's call settled: res.json(data), or the error envelope; the
\* handler ends and its call record is dropped
PassthroughRespond(slot) ==
  /\ pt[slot].pc = "await"
  /\ Settled(calls[slot])
  /\ pt' = [pt EXCEPT ![slot].pc = "responded",
              ![slot].response =
                 IF calls[slot].st = "resolved"
                 THEN [status |-> Num(200), body |-> calls[slot].result]
                 ELSE ErrorEnvelope(RouteErrorText(pt[slot].route),
                                    calls[slot].result)]
  /\ calls' = [calls EXCEPT ![slot] = NoCall]
  /\ UNCHANGED <<now, ticks, cache, dash, requests>>
  /\ UNCHANGED <<day, env, test, clientVars>>

-----------------------------------------------------------------------------
(* GET /api/test, lines 176-202 *)

MissingCredentials ==
  [status |-> Num(500),
   body |-> [js |-> "object", error |-> Str("Missing credentials"),
             details |-> Str("ACCESS_KEY or SECRET_KEY not configured in .env file")]]

\* GET /api/test calling the vendor without looking at the keys
TestStart_noCheck ==
  /\ test.pc \in {"idle", "responded"}
  /\ requests < MaxRequests
  /\ requests' = requests + 1
  /\ calls' = [calls EXCEPT ![TestCallId] =
                 renogyRequest(cache, now, ListEndpoint, << >>)]
  /\ cache' = renogyRequestCache(cache, now, ListEndpoint, << >>)
  /\ test' = [pc |-> "await", response |-> NoResponse]
  /\ UNCHANGED <<day, now, ticks, dash, pt, env, clientVars>>

\* lines 176-185: a GET /api/test request arrives; without both keys it is
\* answered at once, else the handler calls renogyRequest('/device/list')
TestStart ==
  /\ test.pc \in {"idle", "responded"}
  /\ requests < MaxRequests
  /\ requests' = requests + 1
  /\ IF ~Truthy(ACCESS_KEY) \/ ~Truthy(SECRET_KEY)
     THEN /\ test' = [pc |-> "responded", response |-> MissingCredentials]
          /\ UNCHANGED <<calls, cache>>
     ELSE /\ calls' = [calls EXCEPT ![TestCallId] =
                         renogyRequest(cache, now, ListEndpoint, << >>)]
          /\ cache' = renogyRequestCache(cache, now, ListEndpoint, << >>)
          /\ test' = [pc |-> "await", response |-> NoResponse]
  /\ UNCHANGED <<day, now, ticks, dash, pt, env, clientVars>>

\* lines 185-201: the call of the test handler settled
TestRespond ==
  /\ test.pc = "await"
  /\ Settled(calls[TestCallId])
  /\ LET data == calls[TestCallId].result
         error == calls[TestCallId].result
     IN test' =
          [pc |-> "responded",
           response |->
             IF calls[TestCallId].st = "resolved"
             THEN [status |-> Num(200),
                   body |-> [js |-> "object", success |-> TRUE,
                             message |-> Str("API credentials are working!"),
                             deviceCount |-> Num(Len(data.items)),
                             devices |-> data]]
             ELSE [status |-> StatusOf(error),
                   body |-> [js |-> "object", success |-> FALSE,
                             error |-> Str("API test failed"),
                             statusCode |-> IF error.response = Undefined THEN Undefined
                                            ELSE error.response.status,
                             statusText |-> IF error.response = Undefined THEN Undefined
                                            ELSE Prop(error.response, "statusText"),
                             details |-> DetailsOf(error),
                             headers |-> IF error.response = Undefined THEN Undefined
                                         ELSE Prop(error.response, "headers")]]]
  /\ calls' = [calls EXCEPT ![TestCallId] = NoCall]
  /\ UNCHANGED <<day, now, ticks, cache, dash, pt, requests, env, clientVars>>

-----------------------------------------------------------------------------
(* The client: fetchDashboardData, the timer, init and the handlers.  The  *)
(* local server is the environment: a fetch in flight is rejected, or      *)
(* answered by a status line, and the body of an answer is then parsed.    *)

\* fetch() rejecting: the server cannot be reached
FetchTypeError == "Failed to fetch"

\* response.json() rejecting: the body is not JSON
JsonSyntaxError == "Unexpected token '<', \"<!DOCTYPE \"... is not valid JSON"

\* The status lines of the local server
OkResponse == [ok |-> TRUE, status |-> 200, statusText |-> "OK"]
NotOkResponses ==
  { [ok |-> FALSE, status |-> 500, statusText |-> "Internal Server Error"],
    [ok |-> FALSE, status |-> 401, statusText |-> "Unauthorized"] }

\* Records of GET /api/dashboard as the server builds them
CtrlHouse ==
  [js |-> "object", deviceId |-> Num(11), name |-> Str("Controller House"),
   category |-> Str("Controller"),
   latestData |-> [js |-> "object", solarWatts |-> Num(120),
                   solarAmps |-> Frac(13, 2), solarVolts |-> Frac(185, 10)],
   alarms |-> Arr(<< >>)]
CtrlShed ==
  [js |-> "object", deviceId |-> Num(13), name |-> Str("Controller Shed"),
   category |-> Str("Controller"), latestData |-> EmptyObject, alarms |-> Arr(<< >>)]
Battery(level) ==
  [js |-> "object", deviceId |-> Num(12), name |-> Str("Battery"),
   category |-> Str("Battery"),
   latestData |-> [js |-> "object", batteryLevel |-> Num(level),
                   presentVolts |-> Frac(133, 10)],
   alarms |-> Arr(<< >>)]
BatteryNoLevel ==
  [js |-> "object", deviceId |-> Num(14), name |-> Str("Battery"),
   category |-> Str("Battery"), latestData |-> EmptyObject, alarms |-> Arr(<< >>)]
BatteryNoData ==
  [js |-> "object", deviceId |-> Num(15), name |-> Str("Battery"),
   category |-> Str("Battery")]
HubRecord(sublist) ==
  [js |-> "object", deviceId |-> Num(1), name |-> Str("Hub"),
   latestData |-> EmptyObject, alarms |-> Arr(<< >>), sublist |-> Arr(sublist)]

\* The bodies the page receives while it refreshes: no device, and a hub
\* with its two controllers and two batteries
ClientBodies ==
  { Arr(<< >>),
    Arr(<<HubRecord(<<CtrlHouse, CtrlShed, Battery(80), Battery(40)>>)>>) }

\* The cycle a call of fetchDashboardData becomes: the first one unused
FetchAvailable == \E c \in DOMAIN cycles : cycles[c] = "none"
NextCycle ==
  CHOOSE c \in DOMAIN cycles :
     cycles[c] = "none" /\ \A d \in DOMAIN cycles : d < c => cycles[d] # "none"

\* lines 176-178: fetchDashboardData() up to its first await
fetchDashboardData(cs) == [cs EXCEPT ![NextCycle] = "fetch"]

\* startAutoRefresh without the clearInterval of line 220
startAutoRefresh_noClear(tm, timer) ==
  [live |-> tm.live \cup {tm.created + 1},
   created |-> tm.created + 1]

\* lines 219-222: the timers after startAutoRefresh
startAutoRefresh(tm, timer) ==
  [live |-> (IF Truthy(timer) THEN tm.live \ {timer.num} ELSE tm.live)
              \cup {tm.created + 1},
   created |-> tm.created + 1]

\* lines 225-230: init() up to its await
InitStart ==
  /\ initCall.pc = "start"
  /\ FetchAvailable
  /\ elements' = initGauge(elements)
  /\ cycles' = fetchDashboardData(cycles)
  /\ initCall' = [pc |-> "await", cycle |-> NextCycle]
  /\ UNCHANGED <<rawData, currentLocation, refreshTimer, document, timers>>
  /\ UNCHANGED serverVars

\* lines 230-231: the cycle init() awaited ended; startAutoRefresh()
InitResume ==
  /\ initCall.pc = "await"
  /\ cycles[initCall.cycle] \in {"succeeded", "failed"}
  /\ timers' = startAutoRefresh(timers, refreshTimer)
  /\ refreshTimer' = Num(timers'.created)
  /\ initCall' = [initCall EXCEPT !.pc = "done"]
  /\ UNCHANGED <<rawData, currentLocation, elements, document, cycles>>
  /\ UNCHANGED serverVars

\* line 221: a live interval timer fires after REFRESH_INTERVAL
IntervalFire(id) ==
  /\ id \in timers.live
  /\ FetchAvailable
  /\ cycles' = fetchDashboardData(cycles)
  /\ UNCHANGED <<rawData, currentLocation, refreshTimer, elements, document, timers,
                 initCall>>
  /\ UNCHANGED serverVars

\* lines 241-247: visibilitychange, the page is now hidden
VisibilityHidden ==
  /\ ~document.hidden
  /\ document' = [hidden |-> TRUE]
  /\ IF Truthy(refreshTimer)
     THEN /\ timers' = [timers EXCEPT !.live = @ \ {refreshTimer.num}]
          /\ refreshTimer' = Null
     ELSE UNCHANGED <<timers, refreshTimer>>
  /\ UNCHANGED <<rawData, currentLocation, elements, cycles, initCall>>
  /\ UNCHANGED serverVars

\* lines 247-250: visibilitychange, the page is visible again
VisibilityVisible ==
  /\ document.hidden
  /\ FetchAvailable
  /\ document' = [hidden |-> FALSE]
  /\ cycles' = fetchDashboardData(cycles)
  /\ timers' = startAutoRefresh(timers, refreshTimer)
  /\ refreshTimer' = Num(timers'.created)
  /\ UNCHANGED <<rawData, currentLocation, elements, initCall>>
  /\ UNCHANGED serverVars

\* lines 178, 194-197: fetch() of cycle c rejects
FetchRejected(c) ==
  /\ cycles[c] = "fetch"
  /\ cycles' = [cycles EXCEPT ![c] = "failed"]
  /\ elements' = showError(elements, "Failed to load: " \o FetchTypeError)
  /\ UNCHANGED <<rawData, currentLocation, refreshTimer, document, timers, initCall>>
  /\ UNCHANGED serverVars

\* lines 178-183: fetch() of cycle c resolves with a response
FetchResponded(c, response) ==
  /\ cycles[c] = "fetch"
  /\ IF response.ok
     THEN /\ cycles' = [cycles EXCEPT ![c] = "json"]
          /\ UNCHANGED elements
     ELSE /\ cycles' = [cycles EXCEPT ![c] = "failed"]
          /\ elements' =
               showError(elements,
                         "Failed to load: HTTP " \o ToString(response.status)
                            \o ": " \o response.statusText)
  /\ UNCHANGED <<rawData, currentLocation, refreshTimer, document, timers, initCall>>
  /\ UNCHANGED serverVars

\* lines 183, 194-197: response.json() of cycle c rejects
JsonRejected(c) ==
  /\ cycles[c] = "json"
  /\ cycles' = [cycles EXCEPT ![c] = "failed"]
  /\ elements' = showError(elements, "Failed to load: " \o JsonSyntaxError)
  /\ UNCHANGED <<rawData, currentLocation, refreshTimer, document, timers, initCall>>
  /\ UNCHANGED serverVars

\* lines 183-197: response.json() of cycle c resolves with the body
JsonParsed(c, body) ==
  /\ cycles[c] = "json"
  /\ cycles' = [cycles EXCEPT ![c] =
                  IF ~Truthy(body) \/ Len(body.items) = 0 THEN "failed"
                  ELSE "succeeded"]
  /\ rawData' = body
  /\ elements' =
       IF ~Truthy(body) \/ Len(body.items) = 0
       THEN showError(elements, "Failed to load: No devices found")
       ELSE [updateDisplay(body, currentLocation, elements) EXCEPT
               !.loadingHidden = TRUE, !.errorDisplay = "none"]
  /\ UNCHANGED <<currentLocation, refreshTimer, document, timers, initCall>>
  /\ UNCHANGED serverVars

\* lines 208-211, a click on the House button (listening since line 228)
showHouse ==
  /\ initCall.pc # "start"
  /\ currentLocation' = "house"
  /\ elements' = updateDisplay(rawData, "house", elements)
  /\ UNCHANGED <<rawData, refreshTimer, document, timers, cycles, initCall>>
  /\ UNCHANGED serverVars

\* lines 213-216, a click on the Shed button (listening since line 229)
showShed ==
  /\ initCall.pc # "start"
  /\ currentLocation' = "shed"
  /\ elements' = updateDisplay(rawData, "shed", elements)
  /\ UNCHANGED <<rawData, refreshTimer, document, timers, cycles, initCall>>
  /\ UNCHANGED serverVars

-----------------------------------------------------------------------------
(* The server: requests of every route, the vendor and the clock *)
Next ==
  \/ Tick
  \/ \E id \in CallIds : UpstreamRespond(id)
  \/ \E id \in CallIds : UpstreamFail(id)
  \/ DashboardStart
  \/ DashboardListFailed
  \/ DashboardFanOut
  \/ \E i \in 1..Len(dash.phase) : DeviceSublist(i)
  \/ DashboardRespond
  \/ \E slot \in PtSlots, route \in Routes, deviceId \in PathIds, query \in Queries :
       PassthroughStart(slot, route, deviceId, query)
  \/ \E slot \in PtSlots : PassthroughRespond(slot)
  \/ TestStart
  \/ TestRespond

Spec == Init /\ [][Next]_vars

(* The proxy: the server receiving, possibly at the same time, requests   *)
(* for the latest-data route (no parameters) and the history route (three  *)
(* parameters), while time passes.                                         *)
ProxyRoutes == {"latest", "history"}

NextProxy ==
  \/ Tick
  \/ \E id \in PtSlots : UpstreamRespond(id)
  \/ \E id \in PtSlots : UpstreamFail(id)
  \/ \E slot \in PtSlots, route \in ProxyRoutes, deviceId \in PathIds, query \in Queries :
       PassthroughStart(slot, route, deviceId, query)
  \/ \E slot \in PtSlots : PassthroughRespond(slot)

SpecProxy == Init /\ [][NextProxy]_vars

(* The keys: a server started on any of the boot days takes two requests   *)
(* from every route, device and query string, and holds them before the    *)
(* vendor answers.                                                         *)
KeyPathIds == {Str("1"), Str("12")}

\* req.query: each parameter absent, empty, a string of digits, or a string
\* with characters that JSON and the query string write differently
KeyQueries ==
  [year : {Undefined, Str(""), Str("2024"), Str("2025"), Str("20 24"), Str("a\"b&c=\\")},
   month : {Undefined, Str("10"), Str("1")},
   utcOffsetHours : {Undefined, Str("0"), Str("1")}]

InitKey ==
  /\ day \in BootDays
  /\ now = 0
  /\ ticks = 0
  /\ cache = {}
  /\ calls = [id \in CallIds |-> NoCall]
  /\ dash = [pc |-> "idle", devices |-> Undefined, phase |-> << >>,
             response |-> NoResponse]
  /\ pt = [slot \in PtSlots |->
             [pc |-> "idle", route |-> "", response |-> NoResponse]]
  /\ requests = 0
  /\ env = KeysConfigured
  /\ test = [pc |-> "idle", response |-> NoResponse]
  /\ ClientInit

NextKey ==
  \E slot \in PtSlots, route \in Routes, deviceId \in KeyPathIds, query \in KeyQueries :
     PassthroughStart(slot, route, deviceId, query)

SpecKey == InitKey /\ [][NextKey]_vars

(* One dashboard build.  The server has run before: the cache is empty, or *)
(* holds what earlier requests left in it at time 0, CACHE_TTL or          *)
(* CACHE_TTL + 1 milliseconds ago.                                         *)
SeedCache ==
  { [key |-> getCacheKey(ListEndpoint, << >>),
     data |-> Arr(<<Hub1(<<Sub11, Sub12>>)>>), timestamp |-> 0],
    [key |-> getCacheKey(LatestEndpoint(Num(11)), << >>),
     data |-> [js |-> "object", data |-> [js |-> "object", batteryLevel |-> Num(72)]],
     timestamp |-> 0],
    [key |-> getCacheKey(AlarmEndpoint(Num(1)), << >>),
     data |-> Str(""), timestamp |-> 0] }

InitDash ==
  /\ day = StartDay
  /\ \E seed \in {[cache |-> {}, now |-> 0],
                  [cache |-> SeedCache, now |-> CACHE_TTL],
                  [cache |-> SeedCache, now |-> CACHE_TTL + 1]} :
       /\ cache = seed.cache
       /\ now = seed.now
  /\ ticks = 0
  /\ calls = [id \in CallIds |-> NoCall]
  /\ dash = [pc |-> "idle", devices |-> Undefined, phase |-> << >>,
             response |-> NoResponse]
  /\ pt = [slot \in PtSlots |->
             [pc |-> "idle", route |-> "", response |-> NoResponse]]
  /\ requests = 0
  /\ env = KeysConfigured
  /\ test = [pc |-> "idle", response |-> NoResponse]
  /\ ClientInit

NextDash ==
  \/ \E id \in DashCallIds : UpstreamRespond(id)
  \/ \E id \in DashCallIds : UpstreamFail(id)
  \/ (dash.pc = "idle" /\ DashboardStart)
  \/ DashboardListFailed
  \/ DashboardFanOut
  \/ \E i \in 1..Len(dash.phase) : DeviceSublist(i)
  \/ DashboardRespond

SpecDash == InitDash /\ [][NextDash]_vars

(* The dashboard served again after a failure: a freshly started server    *)
(* receives a GET /api/dashboard request, and a further one each time the  *)
(* last one was answered by an error envelope.  Every call that went to    *)
(* the vendor is eventually answered or fails, and every continuation of   *)
(* the handler that is ready to run is eventually run by the event loop;   *)
(* nothing forces a further request to arrive.  The calls that fail are    *)
(* the device list and, among top-level devices and among sub-devices, one *)
(* latest-data call and one alarm call; every call may be answered by any  *)
(* payload.                                                                *)
ServeFailIds ==
  { ListEndpoint,
    LatestEndpoint(Num(1)), AlarmEndpoint(Num(2)),
    LatestEndpoint(Num(12)), AlarmEndpoint(Num(11)) }

NextServe ==
  \/ \E id \in DashCallIds : UpstreamRespond(id)
  \/ \E id \in ServeFailIds : UpstreamFail(id)
  \/ ((dash.pc = "idle" \/ dash.response.status # Num(200)) /\ DashboardStart)
  \/ DashboardListFailed
  \/ DashboardFanOut
  \/ \E i \in 1..Len(dash.phase) : DeviceSublist(i)
  \/ DashboardRespond

\* A call in flight is settled, by an answer or by a failure
UpstreamSettles ==
  \/ \E id \in DashCallIds : UpstreamRespond(id)
  \/ \E id \in ServeFailIds : UpstreamFail(id)

SpecServe ==
  /\ Init
  /\ [][NextServe]_vars
  /\ WF_vars(UpstreamSettles)
  /\ WF_vars(DashboardListFailed)
  /\ WF_vars(DashboardFanOut)
  /\ WF_vars(\E i \in 1..Len(dash.phase) : DeviceSublist(i))
  /\ WF_vars(DashboardRespond)

(* The routes: the server receiving, possibly at the same time, requests   *)
(* for any of the six passthrough routes; no time passes.                  *)
NextRoutes ==
  \/ \E id \in PtSlots : UpstreamRespond(id)
  \/ \E id \in PtSlots : UpstreamFail(id)
  \/ \E slot \in PtSlots, route \in Routes, deviceId \in PathIds, query \in Queries :
       PassthroughStart(slot, route, deviceId, query)
  \/ \E slot \in PtSlots : PassthroughRespond(slot)

SpecRoutes == Init /\ [][NextRoutes]_vars

(* The configuration: the process started with both keys, with one of them *)
(* or with none, a key that is not set being absent from the environment   *)
(* or left empty in .env, and receives GET /api/test, GET /api/devices and *)
(* GET /api/devices/1/latest; a GET /api/dashboard too when a key is       *)
(* missing.  The vendor accepts no request made without both keys.         *)
Environments ==
  [ACCESS_KEY : {Str("access"), Str(""), Undefined},
   SECRET_KEY : {Str("secret"), Str(""), Undefined}]

\* lines 178, 279: !ACCESS_KEY || !SECRET_KEY
AnyKeyUnset == ~Truthy(ACCESS_KEY) \/ ~Truthy(SECRET_KEY)

ConfigRoutes == {"devices", "latest"}
ConfigCallIds == PtSlots \cup {TestCallId, ListEndpoint}

InitConfig == (\E keys \in Environments : ServerStart(keys)) /\ ClientInit

NextConfig ==
  \/ \E id \in ConfigCallIds : (~AnyKeyUnset /\ UpstreamRespond(id))
  \/ \E id \in ConfigCallIds : UpstreamFail(id)
  \/ TestStart
  \/ TestRespond
  \/ \E slot \in PtSlots, route \in ConfigRoutes, deviceId \in PathIds :
       PassthroughStart(slot, route, deviceId, NoQuery)
  \/ \E slot \in PtSlots : PassthroughRespond(slot)
  \/ (AnyKeyUnset /\ dash.pc = "idle" /\ DashboardStart)
  \/ DashboardListFailed

SpecConfig == InitConfig /\ [][NextConfig]_vars

(* The page: init, the refresh timer, the page hidden and shown again, the *)
(* House and Shed buttons, and fetches that the local server answers at    *)
(* any later moment.                                                       *)
NextClient ==
  \/ InitStart
  \/ InitResume
  \/ \E id \in timers.live : IntervalFire(id)
  \/ VisibilityHidden
  \/ VisibilityVisible
  \/ \E c \in DOMAIN cycles : FetchRejected(c)
  \/ \E c \in DOMAIN cycles, response \in {OkResponse} \cup NotOkResponses :
       FetchResponded(c, response)
  \/ \E c \in DOMAIN cycles : JsonRejected(c)
  \/ \E c \in DOMAIN cycles, body \in ClientBodies : JsonParsed(c, body)
  \/ showHouse
  \/ showShed

SpecClient == Init /\ [][NextClient]_vars

(* The view: the first fetch of the page answered by a dashboard of one    *)
(* hub whose sublist holds the two controllers and up to three batteries   *)
(* in several orders, or batteries alone, then shown for either location.  *)
Levels == {0, 24, 25, 40, 49, 50, 80, 100}
\* Levels with decimals, 0.1, 0.2 and 74.8, whose sums are not the doubles
\* nearest to the exact sums
FractionLevels == {Frac(1, 10), Frac(1, 5), Frac(374, 5)}
\* Batteries of every level, a battery whose voltage, 13.35, is halfway
\* between two decimals of one digit, and batteries that report nothing
BatteryKinds ==
  {Battery(level) : level \in Levels}
    \cup {[Battery(0) EXCEPT !.latestData.batteryLevel = level] :
             level \in FractionLevels}
    \cup {[Battery(50) EXCEPT !.latestData.presentVolts = Frac(267, 20)]}
    \cup {BatteryNoLevel, BatteryNoData}
BatteryLists ==
  {<< >>} \cup {<<a>> : a \in BatteryKinds}
          \cup {<<a, b>> : a \in BatteryKinds, b \in BatteryKinds}
          \cup {<<a, b, c>> : a \in BatteryKinds, b \in BatteryKinds,
                              c \in {Battery(100), BatteryNoLevel,
                                     [Battery(0) EXCEPT
                                        !.latestData.batteryLevel = Frac(1, 10)]}}
ViewSublists ==
  {<<CtrlHouse, CtrlShed>> \o bs : bs \in BatteryLists}
    \cup {bs \o <<CtrlShed, CtrlHouse>> : bs \in BatteryLists}
    \cup {<<CtrlShed>> \o bs \o <<CtrlHouse>> : bs \in BatteryLists}
    \cup BatteryLists
ViewBodies == {Arr(<<HubRecord(sublist)>>) : sublist \in ViewSublists}

NextView ==
  \/ InitStart
  \/ InitResume
  \/ \E c \in DOMAIN cycles : FetchResponded(c, OkResponse)
  \/ \E c \in DOMAIN cycles, body \in ViewBodies : JsonParsed(c, body)
  \/ showHouse
  \/ showShed

SpecView == Init /\ [][NextView]_vars

-----------------------------------------------------------------------------
(* Properties of the cache and of renogyRequest *)

\* Call id is made in this step / is answered by the vendor in this step
Started(id) == calls[id].st = "none" /\ calls'[id].st # "none"
Answered(id) == calls[id].st = "inflight" /\ calls'[id].st = "resolved"
Failed(id) == calls[id].st = "inflight" /\ calls'[id].st = "rejected"

\* At the moment of this step the cache holds an unexpired entry for key
Fresh(key) ==
  HasEntry(cache, key) /\ now - EntryOf(cache, key).timestamp <= CACHE_TTL
Stale(key) ==
  HasEntry(cache, key) /\ now - EntryOf(cache, key).timestamp > CACHE_TTL

\* C1: a renogyRequest made while the cache holds an unexpired entry for its
\* key returns the stored payload, whatever that payload is, and neither
\* issues an upstream GET nor computes a timestamp or a signature.
C1_HitReturnsStoredPayload ==
  [][\A id \in CallIds :
       (Started(id) /\ Fresh(calls'[id].cacheKey)) =>
          /\ calls'[id].st = "resolved"
          /\ calls'[id].result = EntryOf(cache, calls'[id].cacheKey).data
          /\ calls'[id].fullUrl = ""
          /\ calls'[id].timestamp = Undefined
          /\ calls'[id].signature = Undefined]_vars

\* C2: setCache(key, value) followed by getFromCache(key) while
\* now - entry.timestamp <= CACHE_TTL returns exactly the stored value and
\* leaves the entry in the cache, also at age exactly CACHE_TTL: the entry
\* an answered call stores reads back at once, and every later call that
\* finds the entry no older than CACHE_TTL reads its data and keeps it.
C2_SetThenGetWithinTTL ==
  [][\A id \in CallIds :
       /\ Answered(id) =>
            /\ getFromCache(cache', now', calls[id].cacheKey) = calls'[id].result
            /\ getFromCacheDelete(cache', now', calls[id].cacheKey) = cache'
       /\ (Started(id) /\ Fresh(calls'[id].cacheKey)) =>
            /\ calls'[id].cached = EntryOf(cache, calls'[id].cacheKey).data
            /\ EntryOf(cache, calls'[id].cacheKey) \in cache'
            /\ ~calls'[id].deleted]_vars

\* A call read, at age exactly CACHE_TTL, the entry an earlier call stored
C2_Witness ==
  \E id \in CallIds :
     /\ calls[id].st = "resolved"
     /\ calls[id].fullUrl = ""
     /\ HasEntry(cache, calls[id].cacheKey)
     /\ calls[id].calledAt - EntryOf(cache, calls[id].cacheKey).timestamp = CACHE_TTL
     /\ calls[id].cached = EntryOf(cache, calls[id].cacheKey).data

\* C3: a getFromCache(key) performed when now - entry.timestamp > CACHE_TTL
\* returns absent and deletes the entry, so the key is no longer cached and
\* the renogyRequest refetches from upstream, its answer overwriting the
\* entry; and no step removes an entry except such a lookup of a stale key.
C3_StaleEntryPurgedLazily ==
  [][/\ \A id \in CallIds :
          /\ (Started(id) /\ Stale(calls'[id].cacheKey)) =>
               /\ calls'[id].cached = Null
               /\ calls'[id].deleted
               /\ ~HasEntry(cache', calls'[id].cacheKey)
               /\ calls'[id].st = "inflight"
               /\ calls'[id].fullUrl # ""
          /\ Answered(id) =>
               {e \in cache' : e.key = calls[id].cacheKey} =
                  {[key |-> calls[id].cacheKey, data |-> calls'[id].result,
                    timestamp |-> now]}
     /\ \A e \in cache :
          ~HasEntry(cache', e.key) =>
             /\ Expired(e, now)
             /\ \E id \in CallIds : Started(id) /\ calls'[id].cacheKey = e.key]_vars

\* A call found its entry stale, deleted it, refetched, and the answer is
\* the entry now cached
C3_Witness ==
  \E id \in CallIds :
     /\ calls[id].deleted
     /\ calls[id].st = "resolved"
     /\ HasEntry(cache, calls[id].cacheKey)
     /\ EntryOf(cache, calls[id].cacheKey).data = calls[id].result
     /\ EntryOf(cache, calls[id].cacheKey).timestamp >= calls[id].calledAt

\* C4: on a cache miss renogyRequest issues exactly one upstream GET; if it
\* succeeds the response body is stored under the key computed at the
\* start of the call and the same body is returned; if it fails the cache
\* is left unchanged and the axios error, with the upstream status and body
\* when there are any, is what the caller gets.
C4_MissFetchesOnceStoresOnSuccess ==
  [][\A id \in CallIds :
       /\ (Started(id) /\ ~Truthy(calls'[id].cached)) =>
            /\ calls'[id].st = "inflight"
            /\ calls'[id].fullUrl # ""
       /\ calls[id].st = "inflight" =>
            /\ calls'[id].st \in {"inflight", "resolved", "rejected"}
            /\ calls'[id].fullUrl = calls[id].fullUrl
            /\ calls'[id].timestamp = calls[id].timestamp
            /\ calls'[id].cacheKey = calls[id].cacheKey
       /\ Settled(calls[id]) => calls'[id].st # "inflight"
       /\ Answered(id) =>
            /\ calls'[id].result \in PayloadsFor(calls[id].endpoint)
            /\ HasEntry(cache', calls[id].cacheKey)
            /\ EntryOf(cache', calls[id].cacheKey).data = calls'[id].result
       /\ Failed(id) =>
            /\ cache' = cache
            /\ calls'[id].result \in Errors
       /\ (id \in PtSlots /\ pt[id].pc = "await" /\ pt'[id].pc = "responded"
           /\ calls[id].st = "resolved") =>
            pt'[id].response.body = calls[id].result]_vars

\* One call missed, was answered and its body is cached under its key, while
\* another missed, got a 401 and left nothing in the cache for its key
C4_Witness ==
  \E id1, id2 \in CallIds :
     /\ calls[id1].st = "resolved"
     /\ calls[id1].fullUrl # ""
     /\ HasEntry(cache, calls[id1].cacheKey)
     /\ EntryOf(cache, calls[id1].cacheKey).data = calls[id1].result
     /\ calls[id2].st = "rejected"
     /\ calls[id2].result = HttpError
     /\ ~HasEntry(cache, calls[id2].cacheKey)

\* C5: getCacheKey is deterministic and injective on (endpoint, parameter
\* mapping): calls with the same path and the same mapping have the same
\* key, and calls whose mappings differ, or that are sent upstream as
\* different requests, never have the same key.
C5_CacheKeyInjective ==
  \A id1, id2 \in CallIds :
     (calls[id1].st # "none" /\ calls[id2].st # "none") =>
        /\ (calls[id1].endpoint = calls[id2].endpoint
            /\ calls[id1].params = calls[id2].params)
             => calls[id1].cacheKey = calls[id2].cacheKey
        /\ (calls[id1].endpoint # calls[id2].endpoint
            \/ calls[id1].params # calls[id2].params)
             => calls[id1].cacheKey # calls[id2].cacheKey
        /\ calls[id1].fullUrl # calls[id2].fullUrl
             => calls[id1].cacheKey # calls[id2].cacheKey

\* Two history calls for one device whose mappings differ only in the type
\* of a value (year "2024" from the query, 2024 from the clock): the same
\* upstream URL, two keys
C5_Witness ==
  \E id1, id2 \in CallIds :
     /\ calls[id1].st = "inflight" /\ calls[id2].st = "inflight"
     /\ calls[id1].endpoint = calls[id2].endpoint
     /\ calls[id1].params # calls[id2].params
     /\ calls[id1].fullUrl = calls[id2].fullUrl
     /\ calls[id1].cacheKey # calls[id2].cacheKey

-----------------------------------------------------------------------------
(* Properties of GET /api/dashboard *)

EnrichCallIds == DashCallIds \ {ListEndpoint}
ListResolved == calls[ListEndpoint].st = "resolved"
Responded == dash.pc = "responded"
RespondedOK == Responded /\ dash.response.status = Num(200)

\* The sub-devices the device list declares, and the sub-device records of
\* the response
DeclaredCount(device) ==
  IF HasSublist(device) THEN Len(device.sublist.items) ELSE 0
DeclaredSubs ==
  UNION { IF HasSublist(d) THEN Range(d.sublist.items) ELSE {} :
            d \in Range(dash.devices.items) }
SubRecords ==
  UNION { Range(r.sublist.items) : r \in Range(dash.response.body.items) }

BothFailed(device) ==
  /\ calls[LatestEndpoint(device.deviceId)].st = "rejected"
  /\ calls[AlarmEndpoint(device.deviceId)].st = "rejected"

\* Both calls answered, by readings and by a list of alarms
BothSucceeded(device) ==
  /\ calls[LatestEndpoint(device.deviceId)].st = "resolved"
  /\ Truthy(Prop(calls[LatestEndpoint(device.deviceId)].result, "data"))
  /\ calls[AlarmEndpoint(device.deviceId)].st = "resolved"
  /\ calls[AlarmEndpoint(device.deviceId)].result.js = "array"

\* C6: if the /device/list call of a dashboard request fails, the request
\* is answered with an error envelope and no enrichment call is ever issued.
C6_ListFailureIsFatal ==
  calls[ListEndpoint].st = "rejected" =>
     /\ \A id \in EnrichCallIds : calls[id].st = "none"
     /\ dash.pc \in {"list", "responded"}
     /\ Responded =>
          /\ dash.response.status =
               IF calls[ListEndpoint].result.response = Undefined THEN Num(500)
               ELSE calls[ListEndpoint].result.response.status
          /\ dash.response.status # Num(200)
          /\ dash.response.body.error = Str("Failed to fetch dashboard data")
          /\ "details" \in DOMAIN dash.response.body

\* The list call failed and the error envelope was sent
C6_Witness ==
  /\ calls[ListEndpoint].st = "rejected"
  /\ Responded
  /\ dash.response.status = Num(401)

\* C7: in a build where the device list succeeds and both enrichment calls
\* of a sub-device fail, the dashboard contains that sub-device's record
\* with empty latestData, empty alarms and an error marker, and every
\* sibling whose calls succeeded is fully enriched.
C7_FailedSubDeviceKeptWithErrorMarker ==
  RespondedOK =>
     \A sub \in DeclaredSubs :
        /\ BothFailed(sub) =>
             \E r \in SubRecords :
                /\ r.deviceId = sub.deviceId
                /\ r.latestData = EmptyObject
                /\ r.alarms = Arr(<< >>)
                /\ "error" \in DOMAIN r
        /\ (BothSucceeded(sub) /\ \E other \in DeclaredSubs : BothFailed(other)) =>
             \E r \in SubRecords :
                /\ r.deviceId = sub.deviceId
                /\ r.latestData = calls[LatestEndpoint(sub.deviceId)].result.data
                /\ r.alarms = calls[AlarmEndpoint(sub.deviceId)].result

\* C8: whenever the device list call succeeds the dashboard request is
\* answered by a success payload with exactly one record per top-level
\* device in list order, each with exactly one sub-record per declared
\* sub-device in order, whatever the enrichment calls do or return.
C8_NoDeviceDropped ==
  (Responded /\ ListResolved) =>
     /\ dash.response.status = Num(200)
     /\ Len(dash.response.body.items) = Len(dash.devices.items)
     /\ \A i \in 1..Len(dash.devices.items) :
          LET device == dash.devices.items[i]
              record == dash.response.body.items[i]
          IN /\ record.deviceId = device.deviceId
             /\ Len(record.sublist.items) = DeclaredCount(device)
             /\ \A j \in 1..DeclaredCount(device) :
                  record.sublist.items[j].deviceId = device.sublist.items[j].deviceId

\* C9: no enrichment call is issued before the /device/list call resolved,
\* and the response is sent only after every enrichment call of the request
\* (of all devices and all sub-devices) has settled.
C9_ListFirstThenJoin ==
  /\ \A id \in EnrichCallIds :
       calls[id].st # "none" => (ListResolved /\ dash.pc \in {"fanout", "responded"})
  /\ Responded => \A id \in DashCallIds : calls[id].st # "inflight"
  /\ RespondedOK =>
       \A device \in Range(dash.devices.items) \cup DeclaredSubs :
          \A ep \in Range(EnrichEndpoints(device)) : Settled(calls[ep])

\* A build of two top-level devices, one with a sub-device, answered after
\* calls that went upstream
C9_Witness ==
  /\ RespondedOK
  /\ Len(dash.devices.items) = 2
  /\ \E sub \in DeclaredSubs :
       /\ calls[LatestEndpoint(sub.deviceId)].fullUrl # ""
       /\ calls[AlarmEndpoint(sub.deviceId)].fullUrl # ""
  /\ \A device \in Range(dash.devices.items) :
       calls[LatestEndpoint(device.deviceId)].fullUrl # ""

\* C10, as stated: once the device list resolved all enrichment fetches run
\* concurrently -- the calls of every device and of every sub-device have
\* been issued as soon as the fan-out started, none waiting for another
\* enrichment call to finish.
C10_AllFetchesIssuedTogether ==
  dash.pc = "fanout" =>
     \A device \in Range(dash.devices.items) \cup DeclaredSubs :
        \A ep \in Range(EnrichEndpoints(device)) : calls[ep].st # "none"

\* C10, amended: the calls of all top-level devices are issued together
\* when the list resolves, the calls of all sub-devices of one parent are
\* issued together, and a sub-device's calls are issued only after both
\* calls of its own parent have settled.
C10_ConcurrentPerLevel ==
  dash.pc = "fanout" =>
     \A i \in 1..Len(dash.devices.items) :
        LET device == dash.devices.items[i]
            subs == IF HasSublist(device) THEN Range(device.sublist.items) ELSE {}
            subCalls == UNION {Range(EnrichEndpoints(sub)) : sub \in subs}
        IN /\ \A ep \in Range(EnrichEndpoints(device)) : calls[ep].st # "none"
           /\ (\E ep \in subCalls : calls[ep].st # "none") =>
                /\ \A ep \in Range(EnrichEndpoints(device)) : Settled(calls[ep])
                /\ \A ep \in subCalls : calls[ep].st # "none"
           /\ dash.phase[i] = "subs" => \A ep \in subCalls : calls[ep].st # "none"

\* Both calls of a sub-device in flight, after those of its parent settled,
\* together with both calls of another top-level device
C10_Witness ==
  /\ dash.pc = "fanout"
  /\ Len(dash.devices.items) = 2
  /\ \A ep \in Range(EnrichEndpoints(dash.devices.items[1])) : Settled(calls[ep])
  /\ \A ep \in Range(EnrichEndpoints(dash.devices.items[2])) :
       calls[ep].st = "inflight"
  /\ \E sub \in DeclaredSubs :
       \A ep \in Range(EnrichEndpoints(sub)) : calls[ep].st = "inflight"

-----------------------------------------------------------------------------
(* Properties of the client's refresh cycles *)

\* The fetchDashboardData cycles that started and have not ended
InFlight(cs) == {c \in DOMAIN cs : cs[c] \in {"fetch", "json"}}

\* C11: on the client at most one fetchDashboardData cycle is in flight at
\* any time, whatever the interleaving of init, timer ticks, the page being
\* hidden and shown, and fetches that have not completed yet.
C11_AtMostOneCycleInFlight == Cardinality(InFlight(cycles)) <= 1

\* C12: once the page is hidden the refresh timer is cancelled and no
\* interval timer is live for as long as it stays hidden, also when it was
\* hidden while init's first fetch was in flight; and the step that makes
\* the page visible again starts one fetch and one fresh timer.
C12_NoTimerWhileHidden ==
  [][/\ document'.hidden => (timers'.live = {} /\ refreshTimer' = Null)
     /\ (document.hidden /\ ~document'.hidden) =>
          /\ Cardinality(InFlight(cycles')) = Cardinality(InFlight(cycles)) + 1
          /\ timers'.created = timers.created + 1
          /\ timers'.created \in timers'.live
          /\ refreshTimer' = Num(timers'.created)]_vars

-----------------------------------------------------------------------------
(* Properties of the error replies *)

\* C13, as stated: a GET /api/dashboard that fails is answered by the
\* envelope {error, details} with status 500, whatever the cause.
C13_DashboardFailureIs500 ==
  (Responded /\ dash.response.status # Num(200)) =>
     /\ dash.response.status = Num(500)
     /\ DOMAIN dash.response.body = {"js", "error", "details"}

\* C13, amended: a GET /api/dashboard fails exactly when its device list
\* call is rejected, and is then answered by the envelope {error, details}
\* whose status is the status of the upstream response when the failure
\* carries one (401, 502) and 500 when it carries none.
C13_DashboardFailureMirrorsStatus ==
  Responded =>
     /\ (dash.response.status # Num(200)) <=> (calls[ListEndpoint].st = "rejected")
     /\ calls[ListEndpoint].st = "rejected" =>
          LET error == calls[ListEndpoint].result
          IN /\ DOMAIN dash.response.body = {"js", "error", "details"}
             /\ dash.response.body.error = Str("Failed to fetch dashboard data")
             /\ error.response = Undefined => dash.response.status = Num(500)
             /\ error.response # Undefined =>
                  dash.response.status = error.response.status

\* The list call got a 502 without a body and the request was answered 502
C13_Witness ==
  /\ Responded
  /\ calls[ListEndpoint].result = HttpErrorNoBody
  /\ dash.response.status = Num(502)
  /\ dash.response.body.details = Str(HttpErrorNoBody.message)

\* The handler of slot sends its response in this step
PtResponds(slot) == pt[slot].pc = "await" /\ pt'[slot].pc = "responded"

\* C14, as stated: every passthrough route answers an upstream success with
\* the vendor payload unchanged, an upstream failure that carries an HTTP
\* response with that response's status and with details equal to its
\* body, and a failure without an upstream response with status 500 and
\* details equal to the error message.
C14_PassthroughMirrorsUpstream ==
  [][\A slot \in PtSlots :
       PtResponds(slot) =>
          LET call == calls[slot]
              reply == pt'[slot].response
          IN /\ call.st = "resolved" =>
                  (reply.status = Num(200) /\ reply.body = call.result)
             /\ (call.st = "rejected" /\ call.result.response # Undefined) =>
                  /\ reply.status = call.result.response.status
                  /\ reply.body.details = call.result.response.data
             /\ (call.st = "rejected" /\ call.result.response = Undefined) =>
                  /\ reply.status = Num(500)
                  /\ reply.body.details = Str(call.result.message)]_vars

\* The upstream bodies that `||` passes over: the empty body, read as "",
\* and the JSON bodies null, 0 and false
FalsyBodies == {Str(""), Null, Num(0), Bool(FALSE)}

\* C14, amended: as above, except that the details of a failure carrying
\* an HTTP response are the upstream body only when that body is truthy,
\* and the error message when it is falsy: empty, null, 0 or false.
C14_PassthroughMirrorsUpstreamOrMessage ==
  [][\A slot \in PtSlots :
       PtResponds(slot) =>
          LET call == calls[slot]
              reply == pt'[slot].response
          IN /\ call.st = "resolved" =>
                  (reply.status = Num(200) /\ reply.body = call.result)
             /\ (call.st = "rejected" /\ call.result.response # Undefined) =>
                  /\ reply.status = call.result.response.status
                  /\ reply.body.error = Str(RouteErrorText(pt[slot].route))
                  /\ reply.body.details =
                       IF call.result.response.data \in FalsyBodies
                       THEN Str(call.result.message)
                       ELSE call.result.response.data
             /\ (call.st = "rejected" /\ call.result.response = Undefined) =>
                  /\ reply.status = Num(500)
                  /\ reply.body.error = Str(RouteErrorText(pt[slot].route))
                  /\ reply.body.details = Str(call.result.message)]_vars

\* One request was answered 503 with the error message as details, the
\* upstream body being null, and another 401 with the upstream body
C14_Witness ==
  \E s1, s2 \in PtSlots :
     /\ pt[s1].pc = "responded"
     /\ pt[s1].response.status = Num(503)
     /\ pt[s1].response.body.details = Str("Request failed with status code 503")
     /\ pt[s2].pc = "responded"
     /\ pt[s2].response.status = Num(401)
     /\ pt[s2].response.body.details = HttpError.response.data

\* The replies of the routes that call the vendor
VendorReplies ==
  {pt[slot].response : slot \in {s \in PtSlots : pt[s].pc = "responded"}}
    \cup (IF Responded THEN {dash.response} ELSE {})

\* The reply carries the status and the body of the vendor's answer, the
\* error message where that body is falsy, or 500 and the error message
\* where the vendor did not answer
MirrorsFailure(reply, error) ==
  IF error.response = Undefined
  THEN /\ reply.status = Num(500)
       /\ reply.body.details = Str(error.message)
  ELSE /\ reply.status = error.response.status
       /\ reply.body.details =
            IF error.response.data \in FalsyBodies THEN Str(error.message)
            ELSE error.response.data

\* C15, as stated: with the access key or the secret key unset the process
\* serves requests, every request that needs the vendor is answered 500,
\* and GET /api/test is answered 500 {error: 'Missing credentials',
\* details} without calling renogyRequest: no upstream call, no cache lookup.
C15_MissingKeysGive500 ==
  AnyKeyUnset =>
     /\ test.pc = "responded" => test.response = MissingCredentials
     /\ calls[TestCallId] = NoCall
     /\ \A reply \in VendorReplies : reply.status = Num(500)

\* C15, amended: with a key unset (absent or empty) GET /api/test is
\* answered 500 {error: 'Missing credentials', details} without calling
\* renogyRequest.  The other routes do not look at the keys: with the
\* secret key absent their call fails in calcSign before any upstream GET
\* and the reply is 500 with that error's message; otherwise the GET is
\* sent with the keys as they are, an absent or empty access key and a
\* signature made with an empty secret key included, and each reply mirrors
\* the failure of its own call: the status and the body of the vendor's
\* answer, the error message standing for a falsy body, or 500 with the
\* transport error's message.
C15_MissingKeysSurface ==
  /\ [](AnyKeyUnset =>
          /\ test.pc = "responded" => test.response = MissingCredentials
          /\ calls[TestCallId] = NoCall
          /\ SECRET_KEY = Undefined =>
               /\ \A id \in CallIds : calls[id].st # "inflight"
               /\ \A reply \in VendorReplies :
                    /\ reply.status = Num(500)
                    /\ reply.body.details = Str(HmacTypeError.message)
          /\ SECRET_KEY # Undefined =>
               \A id \in CallIds :
                  calls[id].st = "inflight" =>
                     /\ calls[id].accessKey = ACCESS_KEY
                     /\ calls[id].signature.key = SECRET_KEY
          /\ Responded =>
               /\ calls[ListEndpoint].st = "rejected"
               /\ MirrorsFailure(dash.response, calls[ListEndpoint].result))
  /\ [][AnyKeyUnset =>
          \A slot \in PtSlots :
             PtResponds(slot) =>
                /\ calls[slot].st = "rejected"
                /\ MirrorsFailure(pt'[slot].response, calls[slot].result)]_vars

\* Started without the access key, the server answered GET /api/test with
\* Missing credentials and a passthrough request with the vendor's 401
C15_Witness ==
  /\ ACCESS_KEY = Undefined
  /\ SECRET_KEY # Undefined
  /\ test.pc = "responded"
  /\ test.response = MissingCredentials
  /\ \E slot \in PtSlots :
       /\ pt[slot].pc = "responded"
       /\ pt[slot].response.status = Num(401)
       /\ pt[slot].response.body.details = HttpError.response.data

-----------------------------------------------------------------------------
(* Properties of the page *)

\* Cycle c ends in this step
CycleEnds(c) == cycles[c] \in {"fetch", "json"} /\ cycles'[c] \in {"succeeded", "failed"}

\* The messages of the three failures of a cycle: the server not reached,
\* a status that is not OK, a body that is not JSON or lists no device
FailureMessages ==
  { "Failed to load: " \o FetchTypeError,
    "Failed to load: " \o JsonSyntaxError,
    "Failed to load: No devices found" }
    \cup { "Failed to load: HTTP " \o ToString(r.status) \o ": " \o r.statusText :
             r \in NotOkResponses }

\* C16: a fetch cycle that fails shows the error banner with the message of
\* the failure and hides the loading indicator; a cycle that succeeds hides
\* the banner; and the banner, once shown, stays shown through every other
\* step (House and Shed clicks included) until a cycle succeeds, as the
\* hidden banner stays hidden until a cycle fails.
C16_ErrorBannerFollowsCycles ==
  [][/\ \A c \in DOMAIN cycles :
          /\ (CycleEnds(c) /\ cycles'[c] = "failed") =>
               /\ elements'.errorDisplay = "block"
               /\ elements'.errorMessage \in FailureMessages
               /\ elements'.loadingHidden
               /\ cycles[c] = "fetch" =>
                    elements'.errorMessage \in
                       FailureMessages \ {"Failed to load: No devices found",
                                          "Failed to load: " \o JsonSyntaxError}
               /\ (cycles[c] = "json" /\ rawData' # rawData) =>
                    elements'.errorMessage = "Failed to load: No devices found"
          /\ (CycleEnds(c) /\ cycles'[c] = "succeeded") =>
               /\ elements'.errorDisplay = "none"
               /\ elements'.loadingHidden
     /\ (elements.errorDisplay = "block"
         /\ ~\E c \in DOMAIN cycles : CycleEnds(c) /\ cycles'[c] = "succeeded") =>
          elements'.errorDisplay = "block"
     /\ (elements.errorDisplay = "none"
         /\ ~\E c \in DOMAIN cycles : CycleEnds(c) /\ cycles'[c] = "failed") =>
          elements'.errorDisplay = "none"]_vars

\* After a cycle that showed data, a cycle failed on a 500 of the server
\* and the banner is still shown after a click on Shed
C16_Witness ==
  /\ \E c \in DOMAIN cycles : cycles[c] = "failed"
  /\ \E c \in DOMAIN cycles : cycles[c] = "succeeded"
  /\ currentLocation = "shed"
  /\ elements.deviceName = "Shed"
  /\ elements.errorDisplay = "block"
  /\ elements.errorMessage = "Failed to load: HTTP 500: Internal Server Error"
  /\ elements.loadingHidden

\* The sub-devices of the first device of rawData
FirstSublist ==
  IF Truthy(rawData) /\ Len(rawData.items) > 0
     /\ Truthy(Prop(rawData.items[1], "sublist"))
  THEN rawData.items[1].sublist.items
  ELSE << >>

IsNamed(d, name) == Prop(d, "name") = Str(name)
IsBattery(d) == Prop(d, "category") = Str("Battery")
IsController(d) == IsNamed(d, "Controller House") \/ IsNamed(d, "Controller Shed")

\* rawData's first device has one sub-device named Controller House, one
\* named Controller Shed, and besides them only Battery entries
TwoControllersAndBatteries ==
  /\ Cardinality({i \in DOMAIN FirstSublist :
                    IsNamed(FirstSublist[i], "Controller House")}) = 1
  /\ Cardinality({i \in DOMAIN FirstSublist :
                    IsNamed(FirstSublist[i], "Controller Shed")}) = 1
  /\ \A i \in DOMAIN FirstSublist :
        IsController(FirstSublist[i]) # IsBattery(FirstSublist[i])

\* The sublist without its controllers
NotController(d) == ~IsController(d)
BatteryEntries == SelectSeq(FirstSublist, NotController)

\* C17: for a payload whose first device holds the two controllers and any
\* number of Battery entries, organizeDevices gives the house the house
\* controller and all the Battery entries in sublist order, and the shed
\* the shed controller and no battery; and while the shed is the current
\* location the battery section and the gauge are hidden.
C17_LocationsClassified ==
  TwoControllersAndBatteries =>
     LET organized == organizeDevices(rawData)
     IN /\ IsNamed(organized.house.controller, "Controller House")
        /\ \E i \in DOMAIN FirstSublist : organized.house.controller = FirstSublist[i]
        /\ organized.house.batteries = BatteryEntries
        /\ organized.house.name = "House"
        /\ IsNamed(organized.shed.controller, "Controller Shed")
        /\ \E i \in DOMAIN FirstSublist : organized.shed.controller = FirstSublist[i]
        /\ organized.shed.batteries = << >>
        /\ organized.shed.name = "Shed"
        /\ currentLocation = "shed" =>
             /\ elements.deviceName = "Shed"
             /\ elements.batteriesSectionHidden
             /\ elements.combinedBatteryHidden

\* A payload of two controllers around three batteries, shown for the shed
C17_Witness ==
  /\ TwoControllersAndBatteries
  /\ Len(BatteryEntries) = 3
  /\ IsNamed(FirstSublist[1], "Controller Shed")
  /\ currentLocation = "shed"
  /\ elements.batteriesSectionHidden
  /\ elements.combinedBatteryHidden

\* The color the thresholds give to an integer percentage
ColorOf(p) == IF p >= 50 THEN Green ELSE IF p >= 25 THEN Yellow ELSE Red

\* C18: for every combined percentage p in 0..100 updateGauge sets green
\* for p >= 50, yellow for 25..49 and red below 25, and the color of the
\* gauge always agrees with the integer percentage written next to it.
C18_GaugeColorMatchesPercentage ==
  \A p \in 0..100 :
     /\ updateGauge(elements, Num(p)).gaugeStroke = ColorOf(p)
     /\ elements.combinedValue = ToString(p) \o "%" => elements.gaugeStroke = ColorOf(p)

\* The batteries of a list that report a level, and the sum of their levels
Reporting(batteries) ==
  {i \in DOMAIN batteries :
     /\ "latestData" \in DOMAIN batteries[i]
     /\ "batteryLevel" \in DOMAIN batteries[i].latestData}

\* The levels of the batteries at indices added up in list order
RECURSIVE SumOfLevels(_, _)
SumOfLevels(batteries, indices) ==
  IF indices = {} THEN Num(0)
  ELSE LET i == CHOOSE j \in indices : \A k \in indices : k <= j
       IN Plus(SumOfLevels(batteries, indices \ {i}),
               batteries[i].latestData.batteryLevel)

\* The number v is the mean of the reported levels, or 0 without any: their
\* sum divided by their number as doubles, which for integer levels is the
\* double nearest to the exact mean
IsMeanOf(v, batteries) ==
  LET sum == SumOfLevels(batteries, Reporting(batteries))
      count == Cardinality(Reporting(batteries))
  IN IF count = 0 THEN v = Num(0)
     ELSE /\ v = DividedBy(sum, count)
          /\ DOMAIN sum = DOMAIN Num(0) =>
                /\ "mant" \notin DOMAIN v
                /\ v.num * count = sum.num * Den(v)

\* The Battery entries of rawData
HouseBatteries ==
  LET Matches(d) == IsBattery(d) IN SelectSeq(FirstSublist, Matches)

\* C19: the combined percentage updateBatteries computes is the arithmetic
\* mean of batteryLevel over exactly the batteries whose latestData reports
\* a level, those without latestData or without a level counting neither in
\* the sum nor in the count, and 0 when none reports a level; 80 and 40 give
\* 60; and it is the percentage the gauge is set to when the house is shown.
C19_CombinedLevelIsMean ==
  /\ IsMeanOf(CombinedLevel(HouseBatteries), HouseBatteries)
  /\ CombinedLevel(<<Battery(80), Battery(40)>>) = Num(60)
  /\ CombinedLevel(<<BatteryNoData, BatteryNoLevel>>) = Num(0)
  /\ CombinedLevel(<< >>) = Num(0)
  /\ (currentLocation = "house" /\ Len(HouseBatteries) > 0
      /\ elements.errorDisplay = "none") =>
        IsMeanOf(elements.gaugePercentage, HouseBatteries)

\* The house shown with three batteries of which two report a level, their
\* mean not an integer
C19_Witness ==
  /\ currentLocation = "house"
  /\ Len(HouseBatteries) = 3
  /\ Cardinality(Reporting(HouseBatteries)) = 2
  /\ elements.errorDisplay = "none"
  /\ "den" \in DOMAIN elements.gaugePercentage
  /\ elements.totalBatteryPercent = "45%"

-----------------------------------------------------------------------------
(* Concurrent calls of renogyRequest *)

\* Another call for the key of call id is in flight
OtherInFlight(id, key) ==
  \E other \in CallIds \ {id} :
     calls[other].st = "inflight" /\ calls[other].cacheKey = key

\* C20: cache misses for one key are not coalesced.  A call that misses
\* while another call for its key is in flight issues its own GET; an
\* answer resolves only the call it answers, the others staying in flight
\* for their own answer; every answer overwrites the entry of the key, so
\* the cache holds the body of the call answered last; and each handler
\* sends the body its own call returned.
C20_ConcurrentMissesNotCoalesced ==
  [][\A id \in CallIds :
       /\ (Started(id) /\ OtherInFlight(id, calls'[id].cacheKey)
           /\ ~Truthy(getFromCache(cache, now, calls'[id].cacheKey))) =>
            /\ calls'[id].st = "inflight"
            /\ calls'[id].fullUrl # ""
            /\ \A other \in CallIds \ {id} : calls'[other] = calls[other]
       /\ Answered(id) =>
            /\ \A other \in CallIds \ {id} : calls'[other] = calls[other]
            /\ EntryOf(cache', calls[id].cacheKey) =
                 [key |-> calls[id].cacheKey, data |-> calls'[id].result,
                  timestamp |-> now]
       /\ (id \in PtSlots /\ PtResponds(id) /\ calls[id].st = "resolved") =>
            /\ pt'[id].response.body = calls[id].result
            /\ \A other \in PtSlots \ {id} : pt'[other] = pt[other]]_vars

\* Two calls for one key, made at the same moment, both sent upstream and
\* answered by different bodies, the cache holding one of the two
C20_Witness ==
  \E id1, id2 \in CallIds :
     /\ id1 # id2
     /\ calls[id1].cacheKey = calls[id2].cacheKey
     /\ calls[id1].calledAt = calls[id2].calledAt
     /\ calls[id1].fullUrl # "" /\ calls[id2].fullUrl # ""
     /\ calls[id1].st = "resolved" /\ calls[id2].st = "resolved"
     /\ Truthy(calls[id1].result) /\ Truthy(calls[id2].result)
     /\ calls[id1].result # calls[id2].result
     /\ EntryOf(cache, calls[id1].cacheKey).data = calls[id2].result

-----------------------------------------------------------------------------
(* Properties of the records of a dashboard payload *)

\* What the merge of lines 232-236 and 249-254 adds to a device: a mapping
\* of readings, empty when the latest-data call failed or its answer holds
\* no data field, and a list of alarms, empty when the alarm call failed;
\* every field of the device other than its sublist is kept.
Enriched(record, device) ==
  LET latest == calls[LatestEndpoint(device.deviceId)]
      alarm == calls[AlarmEndpoint(device.deviceId)]
  IN /\ record.latestData.js = "object"
     /\ (latest.st = "rejected" \/ "data" \notin DOMAIN latest.result) =>
          record.latestData = EmptyObject
     /\ record.alarms.js = "array"
     /\ alarm.st = "rejected" => record.alarms = Arr(<< >>)
     /\ \A f \in DOMAIN device \ {"sublist"} :
          f \in DOMAIN record /\ record[f] = device[f]

\* C21: in every successful dashboard payload every top-level record and
\* every sub-device record carries a latestData mapping (empty when the
\* latest-data call failed or returned no data field) and an alarms list
\* (empty when the alarm call failed) and keeps the device's original
\* fields, and the sublist of each top-level record is the list of the
\* enriched records of its declared sub-devices (empty when none declared).
C21_EveryRecordEnriched ==
  RespondedOK =>
     /\ Len(dash.response.body.items) = Len(dash.devices.items)
     /\ \A i \in 1..Len(dash.devices.items) :
          LET device == dash.devices.items[i]
              record == dash.response.body.items[i]
          IN /\ Enriched(record, device)
             /\ record.sublist.js = "array"
             /\ Len(record.sublist.items) = DeclaredCount(device)
             /\ \A j \in 1..DeclaredCount(device) :
                  /\ Enriched(record.sublist.items[j], device.sublist.items[j])
                  /\ "sublist" \in DOMAIN device.sublist.items[j] =>
                       record.sublist.items[j].sublist
                         = device.sublist.items[j].sublist

\* The same payload property for the builds in which no latest-data call
\* was answered by the JSON value null
C21_EnrichedUnlessNullLatest ==
  (\A id \in EnrichCallIds :
      calls[id].st = "resolved" => calls[id].result # Null) =>
     C21_EveryRecordEnriched

-----------------------------------------------------------------------------
(* Properties of the refresh timer *)

\* refreshTimer is null and no interval timer is live, or it is the id of
\* the one live interval timer
OnlyRecordedTimerLive ==
  IF refreshTimer = Null
  THEN timers.live = {}
  ELSE refreshTimer.js = "number" /\ timers.live = {refreshTimer.num}

\* A step in which startAutoRefresh ran: it created an interval timer
TimerCreated == timers'.created # timers.created

\* C23: on the client at most one interval timer is live at any time,
\* whatever the sequence of init, startAutoRefresh, page-hidden and
\* page-visible events: every startAutoRefresh clears the timer recorded in
\* refreshTimer before it creates a new one, and refreshTimer is the id of
\* the only live timer, or null when none is live.
C23_AtMostOneRefreshTimer ==
  /\ [](Cardinality(timers.live) <= 1 /\ OnlyRecordedTimerLive)
  /\ [][TimerCreated =>
          /\ refreshTimer # Null => refreshTimer.num \notin timers'.live
          /\ timers'.live = {timers'.created}
          /\ refreshTimer' = Num(timers'.created)]_vars

\* init ended and startAutoRefresh has run at least twice: the page is
\* visible, one timer is live and it is not the first one created
C23_Witness ==
  /\ initCall.pc = "done"
  /\ ~document.hidden
  /\ timers.created >= 2
  /\ timers.live = {timers.created}
  /\ refreshTimer = Num(timers.created)

-----------------------------------------------------------------------------
(* Properties of the dashboard served over time *)

\* A dashboard request was received and no response was sent yet
Pending == dash.pc \in {"list", "fanout"}

\* The success payload, or the error envelope of lines 270-273
SuccessPayload(response) ==
  response.status = Num(200) /\ response.body.js = "array"
ErrorEnvelopeSent(response) ==
  /\ response.status \in {StatusOf(error) : error \in Errors}
  /\ response.body.js = "object"
  /\ response.body.error = Str("Failed to fetch dashboard data")

\* The handler writes a response in this step
Sends == dash'.response # NoResponse /\ dash'.response # dash.response

\* C22: provided every upstream call eventually resolves or rejects, every
\* GET /api/dashboard request is eventually answered, by exactly one
\* response -- the success payload or one error envelope, written once and
\* never replaced while the request lasts -- and after a request that
\* failed the server accepts and answers the next one.
C22_EveryRequestAnsweredOnce ==
  /\ Pending ~> Responded
  /\ [](Responded <=> dash.response # NoResponse)
  /\ [](Responded =>
          SuccessPayload(dash.response) \/ ErrorEnvelopeSent(dash.response))
  /\ []((Responded /\ ~RespondedOK /\ requests < MaxRequests) =>
          ENABLED DashboardStart)
  /\ [][/\ Sends => (Pending /\ dash.response = NoResponse /\ Responded')
        /\ (Responded /\ Responded') => dash'.response = dash.response]_vars

\* A second request answered by a success payload of two devices after the
\* first one failed
C22_Witness ==
  /\ requests = 2
  /\ RespondedOK
  /\ Len(dash.response.body.items) = 2

====
